---- MODULE Spec2Model ----
(***************************************************************************)
(* Model of the protocol dispatch engine of mcp-sdk (src/mcp-sdk/src):     *)
(* SystemMCPServer::handle, its cancellation registry (active_requests),  *)
(* the subscription set, and the response constructors of MCPResponse.    *)
(*                                                                         *)
(* Every call of handle is a task.  A task advances from one await point   *)
(* of the Rust future to the next in one step; tasks interleave at await   *)
(* points only.                                                            *)
(***************************************************************************)
EXTENDS Integers, Sequences, FiniteSets, TLC

\* Number of handle invocations in flight at once.
MaxTasks == 2

Tasks == 1..MaxTasks

VARIABLES
    feature_jsonrpc_1,  \* build: cargo feature "jsonrpc-1" enabled (else strict 2.0)
    pc,                 \* task -> await point of its handle future
    req,                \* task -> the MCPRequest it handles
    cap_state,          \* task -> state of its capability future
    cap_result,         \* task -> what the capability returned
    result,             \* task -> handle's local `result`
    cancel_rx,          \* task -> state of its oneshot receiver
    race,               \* task -> which select! branches were ready when it resolved
    found,              \* task -> what handle_cancellation's remove returned
    called,             \* task -> capability operations it invoked
    responses,          \* task -> what handle returned (Some(resp) as <<resp>>)
    active_requests,    \* registry: key -> task owning the oneshot sender
    lock_owner,         \* task holding the write guard of active_requests, or 0
    subscriptions,      \* set of subscribed URIs
    cancel_seen,        \* task -> a cancellation naming its id was processed mid-flight
    progress_sender,    \* task -> the token of its ProgressSender, NoSender before it is made
    sends,              \* task -> number of ProgressSender::send calls of its capability
    tokens_seen,        \* the progress tokens tools/call requests have carried so far
    notification_queue, \* the unbounded mpsc channel: notifications sent, not yet received
    notification_rx,    \* the server's Option<UnboundedReceiver>: TRUE while Some
    stream,             \* the method that gave the consumer its stream, "none" before
    received,           \* the items the consumer's stream has yielded, in order
    enqueued,           \* every notification sent on the channel, in order
    take_results,       \* what each take of the consumer side returned, in order
    error_in,           \* the MCPError last given to to_json_rpc_error by the glue
    error_out,          \* the JsonRpcError it returned
    transport_out,      \* the ready-made response the glue last built
    hook_calls,         \* task -> the (request_id, reason) of its on_request_cancelled calls
    built,              \* the constructor call last made: its name, arguments and response
    wire,               \* the keys and values serde wrote for that response
    handler_subscriptions \* the URIs the capability holds subscribed: its subscribe and
                        \* unsubscribe calls that succeeded, in the order it returned them

\* The notification multiplexer.
notify_vars == <<notification_queue, notification_rx, stream, received, enqueued,
                 take_results>>

\* The transport glue's conversions.
glue_vars == <<error_in, error_out, transport_out>>

\* MCPResponse's constructors and its Serialize implementation.
codec_vars == <<built, wire>>

vars == <<feature_jsonrpc_1, pc, req, cap_state, cap_result, result, cancel_rx,
          race, found, called, responses, active_requests, lock_owner,
          subscriptions, cancel_seen, progress_sender, sends, tokens_seen,
          notify_vars, glue_vars, codec_vars, hook_calls,
          handler_subscriptions>>

-----------------------------------------------------------------------------
(* JSON values (serde_json::Value) and Option.  A value is its type and    *)
(* its content as text; an Option::None is the value of type "none".       *)

JNum(s)  == [type |-> "number", text |-> s]
JStr(s)  == [type |-> "string", text |-> s]
JNull    == [type |-> "null",   text |-> "null"]
JObj(s)  == [type |-> "object", text |-> s]
NoneV    == [type |-> "none",   text |-> ""]

Quote == "\""

\* serde_json::Value's Display (to_string): the compact JSON text.
Value_to_string(v) ==
    IF v.type = "string" THEN Quote \o v.text \o Quote ELSE v.text

\* Value::as_str: the content of a JSON string, None for every other value.
\* Returned as an Option<&str>, the value of type "none" standing for None.
Value_as_str(v) ==
    IF v.type = "string" THEN v ELSE NoneV

\* The serialised EmptyResult, the payload of ping, subscribe, unsubscribe
\* and logging/setLevel.
EmptyResult == JObj("{}")

\* The payload a capability operation returns on success.
Payload(op) ==
    IF op \in {"ping", "subscribe", "unsubscribe", "set_log_level"}
    THEN EmptyResult
    ELSE JObj("{" \o op \o "}")

-----------------------------------------------------------------------------
(* MCPRequest                                                              *)

NoTag == "none"

CancelledMethod == "notifications/cancelled"

ParamKeys == {"name", "uri", "level", "requestId", "reason"}

NoParams == [present |-> FALSE, name |-> NoneV, uri |-> NoneV, level |-> NoneV,
             requestId |-> NoneV, reason |-> NoneV]

EmptyParams == [NoParams EXCEPT !.present = TRUE]

\* Value::get on the params object: the member, or None.
Params_get(p, key) == IF p.present THEN p[key] ELSE NoneV

\* `meta` is req.meta's progress_token: None when meta or the token is absent.
MCPRequest(tag, id, method, params) ==
    [jsonrpc |-> tag, id |-> id, method |-> method, params |-> params,
     meta |-> NoneV]

\* The request with _meta.progressToken set.
WithProgressToken(r, token) == [r EXCEPT !.meta = token]

NoRequest == MCPRequest(NoTag, NoneV, "", NoParams)

jsonrpc_version(r) == r.jsonrpc

\* Mutant: a notification is recognised by its method prefix as well.
is_notification_by_method(r) ==
    r.id = NoneV /\ r.method \in {CancelledMethod, "notifications/initialized"}

is_notification(r) == r.id = NoneV

request_is_v2(r) == jsonrpc_version(r) = "2.0"

request_is_v1(r) == jsonrpc_version(r) \in {NoTag, "1.0"}

-----------------------------------------------------------------------------
(* MCPError and JsonRpcError                                               *)

MCPError(kind, arg) == [kind |-> kind, arg |-> arg]

NoError == MCPError("none", "")

JsonRpcError(code, message) == [some |-> TRUE, code |-> code, message |-> message]

NoJsonRpcError == [some |-> FALSE, code |-> 0, message |-> ""]

\* thiserror's Display of each variant.
MCPError_to_string(e) ==
    CASE e.kind = "InvalidJsonRpcVersion" -> "Invalid JSON-RPC version: " \o e.arg
      [] e.kind = "MethodNotFound"        -> "Method not found: " \o e.arg
      [] e.kind = "MissingParameters"     -> "Missing parameters"
      [] e.kind = "MissingToolName"       -> "Missing tool name"
      [] e.kind = "UnknownTool"           -> "Unknown tool: " \o e.arg
      [] e.kind = "UnknownPrompt"         -> "Unknown prompt: " \o e.arg
      [] e.kind = "UnknownResource"       -> "Unknown resource: " \o e.arg
      [] e.kind = "ResourceNotFound"      -> "Resource not found: " \o e.arg
      [] e.kind = "CommandTimeout"        -> "Command timeout"
      [] e.kind = "OutputTooLarge"        -> "Output too large"
      [] e.kind = "StreamError"           -> "Stream error: " \o e.arg
      [] e.kind = "RequestCancelled"      -> "Request was cancelled: " \o e.arg
      [] e.kind = "IoError"               -> "IO error: " \o e.arg
      [] e.kind = "JsonError"             -> "JSON error: " \o e.arg
      [] OTHER                            -> ""

\* Mutant: the first two rows of the table exchanged.
to_json_rpc_error_code_swapped(e) ==
    CASE e.kind = "InvalidJsonRpcVersion" -> -32601
      [] e.kind = "MethodNotFound"        -> -32600
      [] e.kind \in {"MissingParameters", "MissingToolName"} -> -32602
      [] e.kind \in {"UnknownPrompt", "UnknownResource", "ResourceNotFound"} -> -32602
      [] e.kind = "RequestCancelled"      -> -32800
      [] OTHER                            -> -32603

\* Mutant: a cancellation is reported as an internal error.
to_json_rpc_error_code_cancel_internal(e) ==
    CASE e.kind = "InvalidJsonRpcVersion" -> -32600
      [] e.kind = "MethodNotFound"        -> -32601
      [] e.kind \in {"MissingParameters", "MissingToolName"} -> -32602
      [] e.kind \in {"UnknownPrompt", "UnknownResource", "ResourceNotFound"} -> -32602
      [] OTHER                            -> -32603

to_json_rpc_error_code(e) ==
    CASE e.kind = "InvalidJsonRpcVersion" -> -32600
      [] e.kind = "MethodNotFound"        -> -32601
      [] e.kind \in {"MissingParameters", "MissingToolName"} -> -32602
      [] e.kind \in {"UnknownPrompt", "UnknownResource", "ResourceNotFound"} -> -32602
      [] e.kind = "RequestCancelled"      -> -32800
      [] OTHER                            -> -32603

to_json_rpc_error(e) == JsonRpcError(to_json_rpc_error_code(e), MCPError_to_string(e))

\* Result<Value, MCPError>
Ok(v)  == [ok |-> TRUE,  value |-> v,     err |-> NoError]
Err(e) == [ok |-> FALSE, value |-> NoneV, err |-> e]

NoResult == [ok |-> FALSE, value |-> NoneV, err |-> NoError]

-----------------------------------------------------------------------------
(* MCPResponse and its constructors.  jsonrpc is NoTag when the field is   *)
(* None; result is NoneV when None and JNull when Some(Value::Null).       *)

MCPResponse(tag, id, res, err) ==
    [jsonrpc |-> tag, id |-> id, result |-> res, error |-> err]

v1_success(id, res) == MCPResponse(NoTag, id, res, NoJsonRpcError)

v1_error(id, err) == MCPResponse(NoTag, id, JNull, err)

v2_success(id, res) == MCPResponse("2.0", id, res, NoJsonRpcError)

v2_error(id, err) == MCPResponse("2.0", id, NoneV, err)

\* Mutant: success always builds the 2.0 shape.
MCPResponse_success_v2(id, res) == v2_success(id, res)

\* MCPResponse::success: the shape is chosen by the build's features alone.
MCPResponse_success(id, res) ==
    IF feature_jsonrpc_1 THEN v1_success(id, res) ELSE v2_success(id, res)

\* MCPResponse::error: likewise.
MCPResponse_error(id, err) ==
    IF feature_jsonrpc_1 THEN v1_error(id, err) ELSE v2_error(id, err)

\* Mutant: parse_error reports an invalid request.
MCPResponse_parse_error_invalid_request ==
    MCPResponse(IF feature_jsonrpc_1 THEN NoTag ELSE "2.0", NoneV,
                IF feature_jsonrpc_1 THEN JNull ELSE NoneV,
                JsonRpcError(-32600, "Parse error"))

\* MCPResponse::too_large: id None, the shape chosen by the build's features.
MCPResponse_too_large ==
    MCPResponse(IF feature_jsonrpc_1 THEN NoTag ELSE "2.0", NoneV,
                IF feature_jsonrpc_1 THEN JNull ELSE NoneV,
                JsonRpcError(-32700, "Request too large"))

\* MCPResponse::parse_error: likewise.
MCPResponse_parse_error ==
    MCPResponse(IF feature_jsonrpc_1 THEN NoTag ELSE "2.0", NoneV,
                IF feature_jsonrpc_1 THEN JNull ELSE NoneV,
                JsonRpcError(-32700, "Parse error"))

NoResponse == MCPResponse("", NoneV, NoneV, NoJsonRpcError)

response_is_success(resp) == ~resp.error.some

response_is_error(resp) == resp.error.some

\* Mutant: only the explicit "1.0" tag counts as 1.0.
response_is_v1_tagged(resp) == feature_jsonrpc_1 /\ resp.jsonrpc = "1.0"

\* MCPResponse::is_v1: with jsonrpc-1, no tag or the tag "1.0"; false in the
\* strict 2.0 build.
response_is_v1(resp) ==
    IF feature_jsonrpc_1
    THEN resp.jsonrpc = NoTag \/ resp.jsonrpc = "1.0"
    ELSE FALSE

\* MCPResponse::is_v2: with jsonrpc-1, the tag "2.0"; true in the strict 2.0
\* build.
response_is_v2(resp) ==
    IF feature_jsonrpc_1 THEN resp.jsonrpc = "2.0" ELSE TRUE

\* #[derive(Serialize)] of MCPResponse: `present` is the set of keys written.
\* jsonrpc (an Option with jsonrpc-1), result and error are skipped when None;
\* id has no skip attribute and is written as null when None.
Serialize(resp) ==
    [present |-> {"id"}
                 \cup (IF feature_jsonrpc_1 /\ resp.jsonrpc = NoTag
                       THEN {} ELSE {"jsonrpc"})
                 \cup (IF resp.result = NoneV THEN {} ELSE {"result"})
                 \cup (IF resp.error.some THEN {"error"} ELSE {}),
     jsonrpc |-> resp.jsonrpc,
     id      |-> IF resp.id = NoneV THEN JNull ELSE resp.id,
     result  |-> resp.result,
     error   |-> resp.error]

\* Before any response is serialised.
NoWire ==
    [present |-> {}, jsonrpc |-> "", id |-> NoneV, result |-> NoneV,
     error |-> NoJsonRpcError]

SuccessConstructors == {"success", "v1_success", "v2_success"}

ErrorConstructors == {"error", "v1_error", "v2_error"}

\* The constructors a build has: v1_* are compiled with jsonrpc-1 only; v2_*
\* with jsonrpc-2, which the strict build has and the jsonrpc-1 build may have.
ConstructorAvailable(ctor) ==
    ctor \in {"v1_success", "v1_error"} => feature_jsonrpc_1

\* The response a constructor call returns.
Construct(ctor, id, payload, err) ==
    CASE ctor = "success"    -> MCPResponse_success(id, payload)
      [] ctor = "v1_success" -> v1_success(id, payload)
      [] ctor = "v2_success" -> v2_success(id, payload)
      [] ctor = "error"      -> MCPResponse_error(id, err)
      [] ctor = "v1_error"   -> v1_error(id, err)
      [] ctor = "v2_error"   -> v2_error(id, err)

\* Before any constructor is called.
NoCall ==
    [ctor |-> "none", id |-> NoneV, payload |-> NoneV, err |-> NoJsonRpcError,
     resp |-> NoResponse]

-----------------------------------------------------------------------------
(* SystemMCPServer: version detection and the routing table of handle.     *)

\* Mutant: a literal that is neither "1.0" nor "2.0" is taken for 2.0.
validate_and_detect_version_lenient(r) ==
    CASE jsonrpc_version(r) \in {"1.0", NoTag} -> [ok |-> TRUE, version |-> "V1_0", err |-> NoError]
      [] OTHER -> [ok |-> TRUE, version |-> "V2_0", err |-> NoError]

\* validate_and_detect_version: Ok(version) or Err(InvalidJsonRpcVersion).
validate_and_detect_version(r) ==
    CASE jsonrpc_version(r) = "2.0"          -> [ok |-> TRUE, version |-> "V2_0", err |-> NoError]
      [] jsonrpc_version(r) \in {"1.0", NoTag} -> [ok |-> TRUE, version |-> "V1_0", err |-> NoError]
      [] OTHER -> [ok |-> FALSE, version |-> "",
                   err |-> MCPError("InvalidJsonRpcVersion", jsonrpc_version(r))]

\* handle's `_version`: the detected version, V2_0 when detection fails.
\* The binding is never read again.
detected_version(r) ==
    IF validate_and_detect_version(r).ok
    THEN validate_and_detect_version(r).version
    ELSE "V2_0"

\* The arms of handle's match on req.method: method -> capability operation.
RoutedMethods ==
    {"initialize", "ping", "tools/list", "tools/call", "resources/list",
     "resources/read", "resources/templates/list", "resources/subscribe",
     "resources/unsubscribe", "prompts/list", "prompts/get",
     "logging/setLevel", "completion/complete"}

CapabilityOp(method) ==
    CASE method = "initialize"               -> "initialize"
      [] method = "ping"                     -> "ping"
      [] method = "tools/list"               -> "list_tools"
      [] method = "tools/call"               -> "call_tool"
      [] method = "resources/list"           -> "list_resources"
      [] method = "resources/read"           -> "read_resource"
      [] method = "resources/templates/list" -> "list_resource_templates"
      [] method = "resources/subscribe"      -> "subscribe"
      [] method = "resources/unsubscribe"    -> "unsubscribe"
      [] method = "prompts/list"             -> "list_prompts"
      [] method = "prompts/get"              -> "get_prompt"
      [] method = "logging/setLevel"         -> "set_log_level"
      [] method = "completion/complete"      -> "complete"
      [] OTHER                               -> "none"

\* The required string member of params of each arm, "" when none.
RequiredField(method) ==
    CASE method \in {"tools/call", "prompts/get"} -> "name"
      [] method \in {"resources/read", "resources/subscribe",
                     "resources/unsubscribe"}     -> "uri"
      [] method = "logging/setLevel"              -> "level"
      [] OTHER                                    -> ""

RequiresParams(method) ==
    method \in {"tools/call", "resources/read", "resources/subscribe",
                "resources/unsubscribe", "prompts/get", "logging/setLevel",
                "completion/complete"}

\* Mutant: the arm's checks begin with the version check, whose failure
\* aborts the request.
validate_params_checks_version(r) ==
    IF ~validate_and_detect_version(r).ok
    THEN validate_and_detect_version(r).err
    ELSE IF RequiresParams(r.method) /\ ~r.params.present
    THEN MCPError("MissingParameters", "params")
    ELSE IF RequiredField(r.method) # ""
            /\ Value_as_str(Params_get(r.params, RequiredField(r.method))) = NoneV
         THEN IF r.method = "tools/call"
              THEN MCPError("MissingToolName", "")
              ELSE MCPError("MissingParameters", RequiredField(r.method))
         ELSE NoError

\* The params checks of an arm, made before its capability call:
\* NoError, or the error of the first `?` that fails.
validate_params(r) ==
    IF RequiresParams(r.method) /\ ~r.params.present
    THEN MCPError("MissingParameters", "params")
    ELSE IF RequiredField(r.method) # ""
            /\ Value_as_str(Params_get(r.params, RequiredField(r.method))) = NoneV
         THEN IF r.method = "tools/call"
              THEN MCPError("MissingToolName", "")
              ELSE MCPError("MissingParameters", RequiredField(r.method))
         ELSE NoError

\* The string argument the capability call of an arm is given.
CapabilityArg(r) ==
    IF RequiredField(r.method) = "" THEN ""
    ELSE Value_as_str(Params_get(r.params, RequiredField(r.method))).text

\* What a capability operation may return: its payload, or one of its failures.
CapabilityFailures(op, arg) ==
    CASE op = "call_tool"     -> {MCPError("UnknownTool", arg)}
      [] op = "read_resource" -> {MCPError("ResourceNotFound", arg)}
      [] op = "get_prompt"    -> {MCPError("UnknownPrompt", arg)}
      [] OTHER                -> {MCPError("IoError", "io")}

CapabilityOutcomes(op, arg) ==
    {Ok(Payload(op))} \cup {Err(e) : e \in CapabilityFailures(op, arg)}

\* Mutant: an I/O failure of the capability is answered as a success.
handle_response_swallow_io(id, res) ==
    IF res.ok \/ res.err.kind = "IoError"
    THEN MCPResponse_success(id, res.value)
    ELSE MCPResponse_error(id, to_json_rpc_error(res.err))

\* Mutant: an error response is built without the request's id.
handle_response_error_without_id(id, res) ==
    IF res.ok
    THEN MCPResponse_success(id, res.value)
    ELSE MCPResponse_error(NoneV, to_json_rpc_error(res.err))

\* The tail of handle: Some(success) for Ok, Some(error) for Err.
handle_response(id, res) ==
    IF res.ok
    THEN MCPResponse_success(id, res.value)
    ELSE MCPResponse_error(id, to_json_rpc_error(res.err))

\* handle_tool_call_with_cancellation's request_id: the registry key.
registry_key(r) ==
    IF r.id = NoneV THEN "unknown" ELSE Value_to_string(r.id)

\* handle_cancellation's request_id: params.requestId as a string, or None.
cancellation_target(r) == Value_as_str(Params_get(r.params, "requestId"))

\* handle_cancellation's `reason`: the "reason" member when it is a string.
cancellation_reason(r) == Value_as_str(Params_get(r.params, "reason"))

\* Mutant: the hook is called without the reason.
hook_arguments_no_reason(r) ==
    [request_id |-> cancellation_target(r).text, reason |-> NoneV]

\* The arguments handle_cancellation passes to on_request_cancelled.
hook_arguments(r) ==
    [request_id |-> cancellation_target(r).text, reason |-> cancellation_reason(r)]

-----------------------------------------------------------------------------
(* ServerNotification and ProgressSender.                                  *)

\* ServerNotification::Progress; message is left out and total is None.
Progress(token, progress) ==
    [method |-> "notifications/progress", progress_token |-> token,
     progress |-> progress]

\* No ProgressSender made yet.
NoSender == [token |-> [type |-> "unmade", text |-> ""]]

\* ProgressSender::new: the handle keeps the token; its channel is the
\* server's notification_tx.
ProgressSender_new(token) == [token |-> token]

\* Mutant: send enqueues whether or not the handle has a token.
ProgressSender_send_always(sender, progress) ==
    <<Progress(sender.token, progress)>>

\* ProgressSender::send: the notifications it puts on the channel.
ProgressSender_send(sender, progress) ==
    IF sender.token # NoneV
    THEN <<Progress(sender.token, progress)>>
    ELSE <<>>

\* The predicate of the stream the consumer holds (filter_progress,
\* filter_resource_updates, or none).
stream_filter(kind, n) ==
    CASE kind = "progress_stream"        -> n.method = "notifications/progress"
      [] kind = "resource_update_stream" -> n.method = "notifications/resources/updated"
      [] OTHER                           -> TRUE

-----------------------------------------------------------------------------
(* State.                                                                  *)

NoRegistry == [k \in {} |-> 0]

Init ==
    /\ feature_jsonrpc_1 \in BOOLEAN
    /\ pc = [t \in Tasks |-> "idle"]
    /\ req = [t \in Tasks |-> NoRequest]
    /\ cap_state = [t \in Tasks |-> "none"]
    /\ cap_result = [t \in Tasks |-> NoResult]
    /\ result = [t \in Tasks |-> NoResult]
    /\ cancel_rx = [t \in Tasks |-> "none"]
    /\ race = [t \in Tasks |-> "none"]
    /\ found = [t \in Tasks |-> "none"]
    /\ called = [t \in Tasks |-> {}]
    /\ responses = [t \in Tasks |-> <<>>]
    /\ active_requests = NoRegistry
    /\ lock_owner = 0
    /\ subscriptions = {}
    /\ cancel_seen = [t \in Tasks |-> FALSE]
    /\ progress_sender = [t \in Tasks |-> NoSender]
    /\ sends = [t \in Tasks |-> 0]
    /\ tokens_seen = {}
    /\ notification_queue = <<>>
    /\ notification_rx = TRUE
    /\ stream = "none"
    /\ received = <<>>
    /\ enqueued = <<>>
    /\ take_results = <<>>
    /\ error_in = NoError
    /\ error_out = NoJsonRpcError
    /\ transport_out = NoResponse
    /\ hook_calls = [t \in Tasks |-> <<>>]
    /\ built = NoCall
    /\ wire = NoWire
    /\ handler_subscriptions = {}

\* Mutant: an insert under a key already present keeps the old entry beside
\* the new one, under a second key.
registry_insert_keep_both(reg, key, t) ==
    IF key \in DOMAIN reg
    THEN [k \in DOMAIN reg \cup {key \o "'"} |->
             IF k = key THEN t ELSE IF k \in DOMAIN reg THEN reg[k] ELSE reg[key]]
    ELSE [k \in DOMAIN reg \cup {key} |-> IF k = key THEN t ELSE reg[k]]

\* Mutant: an insert under a key already present keeps the old entry.
registry_insert_keep_first(reg, key, t) ==
    [k \in DOMAIN reg \cup {key} |-> IF k \in DOMAIN reg THEN reg[k] ELSE t]

\* HashMap::insert: the map afterwards.
registry_insert(reg, key, t) ==
    [k \in DOMAIN reg \cup {key} |-> IF k = key THEN t ELSE reg[k]]

\* Mutant: the removal leaves the entry in the map.
registry_remove_keep(reg, key) == reg

\* Mutant: the removal empties the map.
registry_remove_clear(reg, key) == NoRegistry

\* HashMap::remove: the map afterwards.
registry_remove(reg, key) ==
    [k \in DOMAIN reg \ {key} |-> reg[k]]

\* The receivers after the sender held under `key` is dropped unsent:
\* a receiver still waiting completes with RecvError.
drop_sender(reg, key, rx) ==
    IF key \in DOMAIN reg /\ rx[reg[key]] = "pending"
    THEN [rx EXCEPT ![reg[key]] = "closed"]
    ELSE rx

\* The receivers after cancel_tx.send(()) on the sender held under `key`.
fire_sender(reg, key, rx) ==
    IF key \in DOMAIN reg /\ rx[reg[key]] = "pending"
    THEN [rx EXCEPT ![reg[key]] = "fired"]
    ELSE rx

\* A request the build can deserialize: strict 2.0 builds require the tag.
Deserializable(r) == feature_jsonrpc_1 \/ r.jsonrpc # NoTag

-----------------------------------------------------------------------------
(* handle, from its call to its first await point.                         *)

\* A notification: notifications/cancelled with a string requestId goes on to
\* handle_cancellation's write lock; every other one returns None at once.
handle_notification(t, r) ==
    /\ pc[t] = "idle"
    /\ Deserializable(r)
    /\ is_notification(r)
    /\ req' = [req EXCEPT ![t] = r]
    /\ pc' = [pc EXCEPT ![t] =
                IF r.method = CancelledMethod /\ cancellation_target(r) # NoneV
                THEN "cancel_lock" ELSE "done"]
    /\ UNCHANGED <<progress_sender, sends, tokens_seen, notify_vars, glue_vars>>
    /\ UNCHANGED <<codec_vars, hook_calls, handler_subscriptions>>
    /\ UNCHANGED <<feature_jsonrpc_1, cap_state, cap_result, result, cancel_rx,
                   race, found, called, responses, active_requests, lock_owner,
                   subscriptions, cancel_seen>>

\* The `other` arm: Err(MethodNotFound), answered at once.
handle_unknown_method(t, r) ==
    /\ pc[t] = "idle"
    /\ Deserializable(r)
    /\ ~is_notification(r)
    /\ r.method \notin RoutedMethods
    /\ req' = [req EXCEPT ![t] = r]
    /\ result' = [result EXCEPT ![t] = Err(MCPError("MethodNotFound", r.method))]
    /\ responses' = [responses EXCEPT ![t] = <<handle_response(r.id, result'[t])>>]
    /\ pc' = [pc EXCEPT ![t] = "done"]
    /\ UNCHANGED <<progress_sender, sends, tokens_seen, notify_vars, glue_vars>>
    /\ UNCHANGED <<codec_vars, hook_calls, handler_subscriptions>>
    /\ UNCHANGED <<feature_jsonrpc_1, cap_state, cap_result, cancel_rx, race,
                   found, called, active_requests, lock_owner, subscriptions,
                   cancel_seen>>

\* An arm other than tools/call whose params checks fail: answered at once.
handle_invalid_params(t, r) ==
    /\ pc[t] = "idle"
    /\ Deserializable(r)
    /\ ~is_notification(r)
    /\ r.method \in RoutedMethods \ {"tools/call"}
    /\ validate_params(r) # NoError
    /\ req' = [req EXCEPT ![t] = r]
    /\ result' = [result EXCEPT ![t] = Err(validate_params(r))]
    /\ responses' = [responses EXCEPT ![t] = <<handle_response(r.id, result'[t])>>]
    /\ pc' = [pc EXCEPT ![t] = "done"]
    /\ UNCHANGED <<progress_sender, sends, tokens_seen, notify_vars, glue_vars>>
    /\ UNCHANGED <<codec_vars, hook_calls, handler_subscriptions>>
    /\ UNCHANGED <<feature_jsonrpc_1, cap_state, cap_result, cancel_rx, race,
                   found, called, active_requests, lock_owner, subscriptions,
                   cancel_seen>>

\* Mutant: every arm registers its request for cancellation.
handle_invoke_registered(t, r) ==
    /\ pc[t] = "idle"
    /\ Deserializable(r)
    /\ ~is_notification(r)
    /\ r.method \in RoutedMethods \ {"tools/call"}
    /\ validate_params(r) = NoError
    /\ req' = [req EXCEPT ![t] = r]
    /\ called' = [called EXCEPT ![t] = @ \cup {CapabilityOp(r.method)}]
    /\ cap_state' = [cap_state EXCEPT ![t] = "running"]
    /\ pc' = [pc EXCEPT ![t] = "await_cap"]
    /\ active_requests' = registry_insert(active_requests, registry_key(r), t)
    /\ UNCHANGED <<progress_sender, sends, tokens_seen, notify_vars, glue_vars>>
    /\ UNCHANGED <<codec_vars, hook_calls, handler_subscriptions>>
    /\ UNCHANGED <<feature_jsonrpc_1, cap_result, result,
                   cancel_rx, race, found, responses, lock_owner, subscriptions,
                   cancel_seen>>

\* An arm other than tools/call: the capability operation is called and awaited.
handle_invoke(t, r) ==
    /\ pc[t] = "idle"
    /\ Deserializable(r)
    /\ ~is_notification(r)
    /\ r.method \in RoutedMethods \ {"tools/call"}
    /\ validate_params(r) = NoError
    /\ req' = [req EXCEPT ![t] = r]
    /\ called' = [called EXCEPT ![t] = @ \cup {CapabilityOp(r.method)}]
    /\ cap_state' = [cap_state EXCEPT ![t] = "running"]
    /\ pc' = [pc EXCEPT ![t] = "await_cap"]
    /\ UNCHANGED <<progress_sender, sends, tokens_seen, notify_vars, glue_vars>>
    /\ UNCHANGED <<codec_vars, hook_calls, handler_subscriptions>>
    /\ UNCHANGED <<feature_jsonrpc_1, cap_result, result, cancel_rx, race, found,
                   responses, active_requests, lock_owner, subscriptions,
                   cancel_seen>>

\* The tools/call arm: handle_tool_call_with_cancellation awaits the write lock.
handle_tool_call_start(t, r) ==
    /\ pc[t] = "idle"
    /\ Deserializable(r)
    /\ ~is_notification(r)
    /\ r.method = "tools/call"
    /\ req' = [req EXCEPT ![t] = r]
    /\ pc' = [pc EXCEPT ![t] = "tc_lock"]
    /\ UNCHANGED <<progress_sender, sends, tokens_seen, notify_vars, glue_vars>>
    /\ UNCHANGED <<codec_vars, hook_calls, handler_subscriptions>>
    /\ UNCHANGED <<feature_jsonrpc_1, cap_state, cap_result, result, cancel_rx,
                   race, found, called, responses, active_requests, lock_owner,
                   subscriptions, cancel_seen>>

handle_start(t, r) ==
    \/ handle_notification(t, r)
    \/ handle_unknown_method(t, r)
    \/ handle_invalid_params(t, r)
    \/ handle_invoke(t, r)
    \/ handle_tool_call_start(t, r)

-----------------------------------------------------------------------------
(* The arms other than tools/call, after their capability call returns.    *)

IsSubscriptionMethod(m) == m \in {"resources/subscribe", "resources/unsubscribe"}

\* HashSet::insert for subscribe, HashSet::remove for unsubscribe.
subscriptions_apply(subs, method, uri) ==
    IF method = "resources/subscribe" THEN subs \cup {uri} ELSE subs \ {uri}

\* Mutant: a resource that was read is remembered in the subscription set.
capability_return_read_subscribes(t, out) ==
    /\ pc[t] = "await_cap"
    /\ out \in CapabilityOutcomes(CapabilityOp(req[t].method), CapabilityArg(req[t]))
    /\ cap_state' = [cap_state EXCEPT ![t] = "ready"]
    /\ cap_result' = [cap_result EXCEPT ![t] = out]
    /\ handler_subscriptions' =
          IF IsSubscriptionMethod(req[t].method) /\ out.ok
          THEN subscriptions_apply(handler_subscriptions, req[t].method,
                                   CapabilityArg(req[t]))
          ELSE handler_subscriptions
    /\ IF IsSubscriptionMethod(req[t].method) /\ out.ok
       THEN /\ pc' = [pc EXCEPT ![t] = "sub_lock"]
            /\ UNCHANGED <<result, responses>>
       ELSE /\ result' = [result EXCEPT ![t] = out]
            /\ responses' = [responses EXCEPT ![t] =
                                <<handle_response(req[t].id, out)>>]
            /\ pc' = [pc EXCEPT ![t] = "done"]
    /\ subscriptions' = IF req[t].method = "resources/read" /\ out.ok
                        THEN subscriptions \cup {CapabilityArg(req[t])}
                        ELSE subscriptions
    /\ UNCHANGED <<progress_sender, sends, tokens_seen, notify_vars, glue_vars>>
    /\ UNCHANGED <<codec_vars, hook_calls>>
    /\ UNCHANGED <<feature_jsonrpc_1, req, cancel_rx, race, found, called,
                   active_requests, lock_owner, cancel_seen>>

\* Mutant: subscribe and unsubscribe go on to the subscription set whatever
\* the capability returned.
capability_return_always_update(t, out) ==
    /\ pc[t] = "await_cap"
    /\ out \in CapabilityOutcomes(CapabilityOp(req[t].method), CapabilityArg(req[t]))
    /\ cap_state' = [cap_state EXCEPT ![t] = "ready"]
    /\ cap_result' = [cap_result EXCEPT ![t] = out]
    /\ handler_subscriptions' =
          IF IsSubscriptionMethod(req[t].method) /\ out.ok
          THEN subscriptions_apply(handler_subscriptions, req[t].method,
                                   CapabilityArg(req[t]))
          ELSE handler_subscriptions
    /\ IF IsSubscriptionMethod(req[t].method)
       THEN /\ pc' = [pc EXCEPT ![t] = "sub_lock"]
            /\ UNCHANGED <<result, responses>>
       ELSE /\ result' = [result EXCEPT ![t] = out]
            /\ responses' = [responses EXCEPT ![t] =
                                <<handle_response(req[t].id, out)>>]
            /\ pc' = [pc EXCEPT ![t] = "done"]
    /\ UNCHANGED <<progress_sender, sends, tokens_seen, notify_vars, glue_vars>>
    /\ UNCHANGED <<codec_vars, hook_calls>>
    /\ UNCHANGED <<feature_jsonrpc_1, req, cancel_rx, race, found, called,
                   active_requests, lock_owner, subscriptions, cancel_seen>>

\* The capability operation returns `out`.  subscribe and unsubscribe go on to
\* the subscription set's write lock when it succeeded; every other arm, and a
\* failed subscribe or unsubscribe, is answered with what it returned.
capability_return(t, out) ==
    /\ pc[t] = "await_cap"
    /\ out \in CapabilityOutcomes(CapabilityOp(req[t].method), CapabilityArg(req[t]))
    /\ cap_state' = [cap_state EXCEPT ![t] = "ready"]
    /\ cap_result' = [cap_result EXCEPT ![t] = out]
    /\ handler_subscriptions' =
          IF IsSubscriptionMethod(req[t].method) /\ out.ok
          THEN subscriptions_apply(handler_subscriptions, req[t].method,
                                   CapabilityArg(req[t]))
          ELSE handler_subscriptions
    /\ IF IsSubscriptionMethod(req[t].method) /\ out.ok
       THEN /\ pc' = [pc EXCEPT ![t] = "sub_lock"]
            /\ UNCHANGED <<result, responses>>
       ELSE /\ result' = [result EXCEPT ![t] = out]
            /\ responses' = [responses EXCEPT ![t] =
                                <<handle_response(req[t].id, out)>>]
            /\ pc' = [pc EXCEPT ![t] = "done"]
    /\ UNCHANGED <<progress_sender, sends, tokens_seen, notify_vars, glue_vars>>
    /\ UNCHANGED <<codec_vars, hook_calls>>
    /\ UNCHANGED <<feature_jsonrpc_1, req, cancel_rx, race, found, called,
                   active_requests, lock_owner, subscriptions, cancel_seen>>

\* subscriptions.write().await.insert(uri) / .remove(uri), then the answer.
subscription_update(t) ==
    /\ pc[t] = "sub_lock"
    /\ subscriptions' =
          subscriptions_apply(subscriptions, req[t].method, CapabilityArg(req[t]))
    /\ result' = [result EXCEPT ![t] = cap_result[t]]
    /\ responses' = [responses EXCEPT ![t] =
                        <<handle_response(req[t].id, cap_result[t])>>]
    /\ pc' = [pc EXCEPT ![t] = "done"]
    /\ UNCHANGED <<progress_sender, sends, tokens_seen, notify_vars, glue_vars>>
    /\ UNCHANGED <<codec_vars, hook_calls, handler_subscriptions>>
    /\ UNCHANGED <<feature_jsonrpc_1, req, cap_state, cap_result, cancel_rx, race,
                   found, called, active_requests, lock_owner, cancel_seen>>

-----------------------------------------------------------------------------
(* handle_cancellation                                                     *)

\* The calls a cancellation naming `target` finds mid-flight: their entry is
\* in the registry, their capability call has not finished, and the text of
\* their id is the requestId.
MidFlight(u, target) ==
    /\ pc[u] = "select"
    /\ cap_state[u] \in {"none", "running"}
    /\ registry_key(req[u]) \in DOMAIN active_requests
    /\ active_requests[registry_key(req[u])] = u
    /\ req[u].id.text = target

\* Mutant: the hook is called whether or not an entry was found.
handle_cancellation_remove_always_hook(t) ==
    /\ pc[t] = "cancel_lock"
    /\ lock_owner = 0
    /\ LET key == cancellation_target(req[t]).text
           hit == key \in DOMAIN active_requests
       IN /\ active_requests' = registry_remove(active_requests, key)
          /\ cancel_rx' = fire_sender(active_requests, key, cancel_rx)
          /\ found' = [found EXCEPT ![t] = IF hit THEN "some" ELSE "absent"]
          /\ called' = [called EXCEPT ![t] = @ \cup {"on_request_cancelled"}]
          /\ hook_calls' = [hook_calls EXCEPT ![t] =
                               Append(@, hook_arguments(req[t]))]
          /\ lock_owner' = t
          /\ pc' = [pc EXCEPT ![t] = "hook"]
          /\ cancel_seen' = [u \in Tasks |-> cancel_seen[u] \/ MidFlight(u, key)]
    /\ UNCHANGED <<progress_sender, sends, tokens_seen, notify_vars, glue_vars>>
    /\ UNCHANGED <<codec_vars, handler_subscriptions>>
    /\ UNCHANGED <<feature_jsonrpc_1, req, cap_state, cap_result,
                   result, race, responses, subscriptions>>

\* active_requests.write().await.remove(request_id): with an entry, the signal
\* is sent and the hook is called and awaited, the write guard of the `if let`
\* scrutinee still alive; without one, handle returns None.
handle_cancellation_remove(t) ==
    /\ pc[t] = "cancel_lock"
    /\ lock_owner = 0
    /\ LET key == cancellation_target(req[t]).text
           hit == key \in DOMAIN active_requests
       IN /\ active_requests' = registry_remove(active_requests, key)
          /\ cancel_rx' = fire_sender(active_requests, key, cancel_rx)
          /\ found' = [found EXCEPT ![t] = IF hit THEN "some" ELSE "absent"]
          /\ called' = [called EXCEPT ![t] =
                           IF hit THEN @ \cup {"on_request_cancelled"} ELSE @]
          /\ hook_calls' = [hook_calls EXCEPT ![t] =
                               IF hit THEN Append(@, hook_arguments(req[t])) ELSE @]
          /\ lock_owner' = IF hit THEN t ELSE 0
          /\ pc' = [pc EXCEPT ![t] = IF hit THEN "hook" ELSE "done"]
          /\ cancel_seen' = [u \in Tasks |-> cancel_seen[u] \/ MidFlight(u, key)]
    /\ UNCHANGED <<progress_sender, sends, tokens_seen, notify_vars, glue_vars>>
    /\ UNCHANGED <<codec_vars, handler_subscriptions>>
    /\ UNCHANGED <<feature_jsonrpc_1, req, cap_state, cap_result,
                   result, race, responses, subscriptions>>

\* Mutant: handle returns None with the registry's write guard never dropped.
handle_cancellation_hook_return_keeps_guard(t) ==
    /\ pc[t] = "hook"
    /\ pc' = [pc EXCEPT ![t] = "done"]
    /\ UNCHANGED <<progress_sender, sends, tokens_seen, notify_vars, glue_vars>>
    /\ UNCHANGED <<codec_vars, hook_calls, handler_subscriptions>>
    /\ UNCHANGED <<feature_jsonrpc_1, req, cap_state, cap_result, result,
                   cancel_rx, race, found, called, responses, active_requests,
                   lock_owner, subscriptions, cancel_seen>>

\* on_request_cancelled returns: the write guard is dropped, handle returns None.
handle_cancellation_hook_return(t) ==
    /\ pc[t] = "hook"
    /\ lock_owner' = 0
    /\ pc' = [pc EXCEPT ![t] = "done"]
    /\ UNCHANGED <<progress_sender, sends, tokens_seen, notify_vars, glue_vars>>
    /\ UNCHANGED <<codec_vars, hook_calls, handler_subscriptions>>
    /\ UNCHANGED <<feature_jsonrpc_1, req, cap_state, cap_result, result,
                   cancel_rx, race, found, called, responses, active_requests,
                   subscriptions, cancel_seen>>

-----------------------------------------------------------------------------
(* handle_tool_call_with_cancellation                                      *)

\* Mutant: every call's handle is bound to the token the server saw last.
bind_progress_token_shared(t) ==
    IF req[t].meta # NoneV \/ tokens_seen = {}
    THEN req[t].meta
    ELSE CHOOSE k \in tokens_seen : TRUE

\* req.meta.as_ref().and_then(|m| m.progress_token.clone()): the token the
\* call's ProgressSender is made with.
bind_progress_token(t) == req[t].meta

\* Mutant: the write guard taken for the insert is kept while the call runs.
tool_call_begin_keeps_guard(t) ==
    /\ pc[t] = "tc_lock"
    /\ lock_owner = 0
    /\ LET key == registry_key(req[t])
       IN /\ active_requests' = registry_insert(active_requests, key, t)
          /\ cancel_rx' = [drop_sender(active_requests, key, cancel_rx)
                              EXCEPT ![t] = "pending"]
    /\ progress_sender' = [progress_sender EXCEPT
                              ![t] = ProgressSender_new(bind_progress_token(t))]
    /\ tokens_seen' = tokens_seen \cup ({req[t].meta} \ {NoneV})
    /\ pc' = [pc EXCEPT ![t] = "select"]
    /\ lock_owner' = t
    /\ UNCHANGED <<sends, notify_vars, glue_vars>>
    /\ UNCHANGED <<codec_vars, hook_calls, handler_subscriptions>>
    /\ UNCHANGED <<feature_jsonrpc_1, req, cap_state, cap_result, result, race,
                   found, called, responses, subscriptions, cancel_seen>>

\* active_requests.write().await.insert(request_id, cancel_tx): a sender already
\* held under the key is dropped.  Then the call's ProgressSender is made.
tool_call_begin(t) ==
    /\ pc[t] = "tc_lock"
    /\ lock_owner = 0
    /\ LET key == registry_key(req[t])
       IN /\ active_requests' = registry_insert(active_requests, key, t)
          /\ cancel_rx' = [drop_sender(active_requests, key, cancel_rx)
                              EXCEPT ![t] = "pending"]
    /\ progress_sender' = [progress_sender EXCEPT
                              ![t] = ProgressSender_new(bind_progress_token(t))]
    /\ tokens_seen' = tokens_seen \cup ({req[t].meta} \ {NoneV})
    /\ pc' = [pc EXCEPT ![t] = "select"]
    /\ UNCHANGED <<sends, notify_vars, glue_vars>>
    /\ UNCHANGED <<codec_vars, hook_calls, handler_subscriptions>>
    /\ UNCHANGED <<feature_jsonrpc_1, req, cap_state, cap_result, result, race,
                   found, called, responses, lock_owner, subscriptions,
                   cancel_seen>>

\* The first poll of handle_tool_call: the params checks, then call_tool is
\* called and awaited.
tool_call_poll(t) ==
    /\ pc[t] = "select"
    /\ cap_state[t] = "none"
    /\ IF validate_params(req[t]) # NoError
       THEN /\ cap_state' = [cap_state EXCEPT ![t] = "ready"]
            /\ cap_result' = [cap_result EXCEPT ![t] = Err(validate_params(req[t]))]
            /\ UNCHANGED called
       ELSE /\ cap_state' = [cap_state EXCEPT ![t] = "running"]
            /\ called' = [called EXCEPT ![t] = @ \cup {"call_tool"}]
            /\ UNCHANGED cap_result
    /\ UNCHANGED <<progress_sender, sends, tokens_seen, notify_vars, glue_vars>>
    /\ UNCHANGED <<codec_vars, hook_calls, handler_subscriptions>>
    /\ UNCHANGED <<feature_jsonrpc_1, pc, req, result, cancel_rx, race, found,
                   responses, active_requests, lock_owner, subscriptions,
                   cancel_seen>>

\* call_tool returns `out`.
call_tool_return(t, out) ==
    /\ pc[t] = "select"
    /\ cap_state[t] = "running"
    /\ out \in CapabilityOutcomes("call_tool", CapabilityArg(req[t]))
    /\ cap_state' = [cap_state EXCEPT ![t] = "ready"]
    /\ cap_result' = [cap_result EXCEPT ![t] = out]
    /\ UNCHANGED <<progress_sender, sends, tokens_seen, notify_vars, glue_vars>>
    /\ UNCHANGED <<codec_vars, hook_calls, handler_subscriptions>>
    /\ UNCHANGED <<feature_jsonrpc_1, pc, req, result, cancel_rx, race, found,
                   called, responses, active_requests, lock_owner, subscriptions,
                   cancel_seen>>

\* Which branches of the select! are ready.
ReadyBranches(t) ==
    CASE cap_state[t] = "ready" /\ cancel_rx[t] \in {"fired", "closed"} -> "both"
      [] cap_state[t] = "ready"                                         -> "tool"
      [] cancel_rx[t] \in {"fired", "closed"}                           -> "cancel"
      [] OTHER                                                          -> "none"

\* The branches the select! may complete with.  It polls its branches in a
\* random order, so with both ready either one is taken.
select_may_take(t, branch) ==
    \/ branch = "tool"   /\ ReadyBranches(t) \in {"tool", "both"}
    \/ branch = "cancel" /\ ReadyBranches(t) \in {"cancel", "both"}

\* The select! completes with `branch`; the other future is dropped (a receiver
\* that had completed keeps its state, "fired" or "closed", for the record).
select_resolve(t, branch) ==
    /\ pc[t] = "select"
    /\ select_may_take(t, branch)
    /\ race' = [race EXCEPT ![t] = ReadyBranches(t)]
    /\ result' = [result EXCEPT ![t] =
                     IF branch = "tool" THEN cap_result[t]
                     ELSE Err(MCPError("RequestCancelled", registry_key(req[t])))]
    /\ cap_state' = [cap_state EXCEPT ![t] =
                        IF branch = "cancel" /\ @ # "ready" THEN "dropped" ELSE @]
    /\ cancel_rx' = [cancel_rx EXCEPT ![t] = IF @ = "pending" THEN "dropped" ELSE @]
    /\ pc' = [pc EXCEPT ![t] = "end_lock"]
    /\ UNCHANGED <<progress_sender, sends, tokens_seen, notify_vars, glue_vars>>
    /\ UNCHANGED <<codec_vars, hook_calls, handler_subscriptions>>
    /\ UNCHANGED <<feature_jsonrpc_1, req, cap_result, found, called, responses,
                   active_requests, lock_owner, subscriptions, cancel_seen>>

\* Mutant: a cancelled call returns None.
tool_call_end_silent_on_cancel(t) ==
    /\ pc[t] = "end_lock"
    /\ lock_owner = 0
    /\ LET key == registry_key(req[t])
       IN /\ active_requests' = registry_remove(active_requests, key)
          /\ cancel_rx' = drop_sender(active_requests, key, cancel_rx)
    /\ responses' = [responses EXCEPT ![t] =
                        IF result[t].err.kind = "RequestCancelled" THEN <<>>
                        ELSE <<handle_response(req[t].id, result[t])>>]
    /\ pc' = [pc EXCEPT ![t] = "done"]
    /\ UNCHANGED <<progress_sender, sends, tokens_seen, notify_vars, glue_vars>>
    /\ UNCHANGED <<codec_vars, hook_calls, handler_subscriptions>>
    /\ UNCHANGED <<feature_jsonrpc_1, req, cap_state, cap_result, result, race,
                   found, called, lock_owner, subscriptions, cancel_seen>>

\* active_requests.write().await.remove(&request_id), then the answer.  The
\* removal is by key: a sender another call registered under it is dropped.
tool_call_end(t) ==
    /\ pc[t] = "end_lock"
    /\ lock_owner = 0
    /\ LET key == registry_key(req[t])
       IN /\ active_requests' = registry_remove(active_requests, key)
          /\ cancel_rx' = drop_sender(active_requests, key, cancel_rx)
    /\ responses' = [responses EXCEPT ![t] = <<handle_response(req[t].id, result[t])>>]
    /\ pc' = [pc EXCEPT ![t] = "done"]
    /\ UNCHANGED <<progress_sender, sends, tokens_seen, notify_vars, glue_vars>>
    /\ UNCHANGED <<codec_vars, hook_calls, handler_subscriptions>>
    /\ UNCHANGED <<feature_jsonrpc_1, req, cap_state, cap_result, result, race,
                   found, called, lock_owner, subscriptions, cancel_seen>>

\* The caller drops a finished handle future and its response.
recycle(t) ==
    /\ pc[t] = "done"
    /\ pc' = [pc EXCEPT ![t] = "idle"]
    /\ req' = [req EXCEPT ![t] = NoRequest]
    /\ cap_state' = [cap_state EXCEPT ![t] = "none"]
    /\ cap_result' = [cap_result EXCEPT ![t] = NoResult]
    /\ result' = [result EXCEPT ![t] = NoResult]
    /\ cancel_rx' = [cancel_rx EXCEPT ![t] = "none"]
    /\ race' = [race EXCEPT ![t] = "none"]
    /\ found' = [found EXCEPT ![t] = "none"]
    /\ called' = [called EXCEPT ![t] = {}]
    /\ responses' = [responses EXCEPT ![t] = <<>>]
    /\ cancel_seen' = [cancel_seen EXCEPT ![t] = FALSE]
    /\ progress_sender' = [progress_sender EXCEPT ![t] = NoSender]
    /\ sends' = [sends EXCEPT ![t] = 0]
    /\ hook_calls' = [hook_calls EXCEPT ![t] = <<>>]
    /\ UNCHANGED <<tokens_seen, notify_vars, glue_vars, codec_vars,
                   handler_subscriptions>>
    /\ UNCHANGED <<feature_jsonrpc_1, active_requests, lock_owner, subscriptions>>

-----------------------------------------------------------------------------
(* Specifications.                                                         *)

\* The capability call of an arm other than tools/call returns.
capability_step(t) ==
    \E out \in CapabilityOutcomes(CapabilityOp(req[t].method), CapabilityArg(req[t])) :
        capability_return(t, out)

\* call_tool returns.
call_tool_step(t) ==
    \E out \in CapabilityOutcomes("call_tool", CapabilityArg(req[t])) :
        call_tool_return(t, out)

\* The select! of a tools/call completes.
select_step(t) == \E branch \in {"tool", "cancel"} : select_resolve(t, branch)

ToolCall(id, params) == MCPRequest("2.0", id, "tools/call", params)

Cancelled(requestId) ==
    MCPRequest("2.0", NoneV, CancelledMethod,
               [EmptyParams EXCEPT !.requestId = JStr(requestId)])

NamedTool == [EmptyParams EXCEPT !.name = JStr("t")]

\* The requests of the concurrent specification: tools/call under the integer
\* id 2 and under the string id "2", a cancellation naming "2", and a ping
\* under id 2.
ConcRequests ==
    { ToolCall(JNum("2"), NamedTool), ToolCall(JStr("2"), NamedTool),
      Cancelled("2"),
      MCPRequest("2.0", JNum("2"), "ping", NoParams) }

\* At most MaxTasks calls of handle in flight at once, each on one of
\* ConcRequests; a finished future is dropped and its slot taken again.
Next ==
    \E t \in Tasks :
        \/ pc[t] = "idle" /\ \E r \in ConcRequests : handle_notification(t, r)
        \/ pc[t] = "idle" /\ \E r \in ConcRequests : handle_invoke(t, r)
        \/ pc[t] = "idle" /\ \E r \in ConcRequests : handle_tool_call_start(t, r)
        \/ capability_step(t)
        \/ handle_cancellation_remove(t)
        \/ handle_cancellation_hook_return(t)
        \/ tool_call_begin(t)
        \/ tool_call_poll(t)
        \/ call_tool_step(t)
        \/ select_step(t)
        \/ tool_call_end(t)
        \/ recycle(t)

Spec == Init /\ [][Next]_vars

\* The concurrent calls of handle with a call_tool that never returns: every
\* action of Next but call_tool_step.
NextHung ==
    \E t \in Tasks :
        \/ pc[t] = "idle" /\ \E r \in ConcRequests : handle_notification(t, r)
        \/ pc[t] = "idle" /\ \E r \in ConcRequests : handle_invoke(t, r)
        \/ pc[t] = "idle" /\ \E r \in ConcRequests : handle_tool_call_start(t, r)
        \/ capability_step(t)
        \/ handle_cancellation_remove(t)
        \/ handle_cancellation_hook_return(t)
        \/ tool_call_begin(t)
        \/ tool_call_poll(t)
        \/ select_step(t)
        \/ tool_call_end(t)
        \/ recycle(t)

\* The runtime polls every task that can make progress (weak fairness on the
\* steps that wait for nothing but the scheduler, the hook's return included:
\* the hook terminates); tokio's RwLock queues its waiters, so a task waiting
\* for the write guard gets it (strong fairness on the three lock steps).
FairScheduling ==
    \A t \in Tasks :
        /\ WF_vars(tool_call_poll(t))
        /\ WF_vars(select_step(t))
        /\ WF_vars(handle_cancellation_hook_return(t))
        /\ SF_vars(handle_cancellation_remove(t))
        /\ SF_vars(tool_call_begin(t))
        /\ SF_vars(tool_call_end(t))

SpecHung == Init /\ [][NextHung]_vars /\ FairScheduling

\* Requests of other methods under id 2, one of them carrying a progress
\* token, a cancellation naming "2", and a tools/call under id 1.
OtherRequests ==
    { WithProgressToken(
          MCPRequest("2.0", JNum("2"), "resources/read",
                     [EmptyParams EXCEPT !.uri = JStr("u")]), JStr("a")),
      MCPRequest("2.0", JNum("2"), "prompts/get", NamedTool),
      MCPRequest("2.0", JNum("2"), "resources/subscribe",
                 [EmptyParams EXCEPT !.uri = JStr("u")]),
      Cancelled("2"),
      ToolCall(JNum("1"), NamedTool) }

\* At most MaxTasks calls of handle in flight at once, each on one of
\* OtherRequests; the cancellation never finds an entry, so its hook step is
\* left out.
NextOther ==
    \E t \in Tasks :
        \/ pc[t] = "idle" /\ \E r \in OtherRequests : handle_notification(t, r)
        \/ pc[t] = "idle" /\ \E r \in OtherRequests : handle_invoke(t, r)
        \/ pc[t] = "idle" /\ \E r \in OtherRequests : handle_tool_call_start(t, r)
        \/ capability_step(t)
        \/ subscription_update(t)
        \/ handle_cancellation_remove(t)
        \/ tool_call_begin(t)
        \/ tool_call_poll(t)
        \/ call_tool_step(t)
        \/ select_step(t)
        \/ tool_call_end(t)
        \/ recycle(t)

SpecOther == Init /\ [][NextOther]_vars

Tags == {NoTag, "1.0", "2.0", "9.9"}

Ids == {NoneV, JNum("1"), JNum("2"), JStr("2")}

Methods == RoutedMethods \cup {CancelledMethod, "notifications/initialized", "unknown/method"}

StringParams ==
    [present |-> TRUE, name |-> JStr("t"), uri |-> JStr("u"), level |-> JStr("info"),
     requestId |-> JStr("2"), reason |-> JStr("r")]

NumberParams ==
    [present |-> TRUE, name |-> JNum("7"), uri |-> JNum("7"), level |-> JNum("7"),
     requestId |-> JNum("2"), reason |-> NoneV]

\* A cancellation's params without a reason.
RequestIdParams == [EmptyParams EXCEPT !.requestId = JStr("2")]

ParamsSet == {NoParams, EmptyParams, StringParams, NumberParams, RequestIdParams}

\* Every request shape.
DispatchRequests ==
    { MCPRequest(tag, id, m, p) : tag \in Tags, id \in Ids, m \in Methods, p \in ParamsSet }

\* One call of handle at a time on any request shape (task 1), beside a
\* tools/call under id 2 (task 2); finished futures are dropped and the slots
\* taken again.
NextDispatch ==
    \/ pc[1] = "idle" /\ \E r \in DispatchRequests : handle_notification(1, r)
    \/ pc[1] = "idle" /\ \E r \in DispatchRequests : handle_unknown_method(1, r)
    \/ pc[1] = "idle" /\ \E r \in DispatchRequests : handle_invalid_params(1, r)
    \/ pc[1] = "idle" /\ \E r \in DispatchRequests : handle_invoke(1, r)
    \/ pc[1] = "idle" /\ \E r \in DispatchRequests : handle_tool_call_start(1, r)
    \/ handle_tool_call_start(2, ToolCall(JNum("2"), NamedTool))
    \/ \E t \in {1, 2} :
          \/ capability_step(t)
          \/ subscription_update(t)
          \/ handle_cancellation_remove(t)
          \/ handle_cancellation_hook_return(t)
          \/ tool_call_begin(t)
          \/ tool_call_poll(t)
          \/ call_tool_step(t)
          \/ select_step(t)
          \/ tool_call_end(t)
          \/ recycle(t)

SpecDispatch == Init /\ [][NextDispatch]_vars

-----------------------------------------------------------------------------
(* The notification multiplexer: progress reports of the capability code,  *)
(* the taking of the consumer side, and the consumer's stream.             *)

\* Progress reports one call_tool makes at most.
MaxSends == 2

\* Notifications put on the channel at most.
MaxNotifications == 2

\* Calls of the four take methods at most.
MaxTakes == 2

\* Mutant: the capability code goes on sending after its future was dropped.
progress_send_after_drop(t) ==
    /\ pc[t] \in {"select", "end_lock"}
    /\ cap_state[t] \in {"running", "dropped"}
    /\ sends[t] < MaxSends
    /\ Len(enqueued) < MaxNotifications
    /\ LET out == ProgressSender_send(progress_sender[t], sends[t] + 1)
       IN /\ notification_queue' = notification_queue \o out
          /\ enqueued' = enqueued \o out
    /\ sends' = [sends EXCEPT ![t] = @ + 1]
    /\ UNCHANGED <<notification_rx, stream, received, take_results>>
    /\ UNCHANGED <<codec_vars, hook_calls, handler_subscriptions>>
    /\ UNCHANGED <<feature_jsonrpc_1, pc, req, cap_state, cap_result, result,
                   cancel_rx, race, found, called, responses, active_requests,
                   lock_owner, subscriptions, cancel_seen, progress_sender,
                   tokens_seen, glue_vars>>

\* The capability code of task t calls send on its handle, for the
\* (sends[t] + 1)-th time, while call_tool runs.
progress_send(t) ==
    /\ pc[t] = "select"
    /\ cap_state[t] = "running"
    /\ sends[t] < MaxSends
    /\ Len(enqueued) < MaxNotifications
    /\ LET out == ProgressSender_send(progress_sender[t], sends[t] + 1)
       IN /\ notification_queue' = notification_queue \o out
          /\ enqueued' = enqueued \o out
    /\ sends' = [sends EXCEPT ![t] = @ + 1]
    /\ UNCHANGED <<notification_rx, stream, received, take_results>>
    /\ UNCHANGED <<codec_vars, hook_calls, handler_subscriptions>>
    /\ UNCHANGED <<feature_jsonrpc_1, pc, req, cap_state, cap_result, result,
                   cancel_rx, race, found, called, responses, active_requests,
                   lock_owner, subscriptions, cancel_seen, progress_sender,
                   tokens_seen, glue_vars>>

\* The methods that hand out the consumer side.
TakeMethods ==
    {"take_notification_stream", "notification_stream", "progress_stream",
     "resource_update_stream"}

\* Mutant: the receiver is cloned out, never taken.
take_keeps_receiver(method) ==
    /\ \A t \in Tasks : pc[t] \in {"idle", "done"}
    /\ Len(take_results) < MaxTakes
    /\ take_results' = Append(take_results, [method |-> method, some |-> notification_rx])
    /\ stream' = method
    /\ UNCHANGED <<notification_rx, notification_queue, received, enqueued>>
    /\ UNCHANGED <<codec_vars, hook_calls, handler_subscriptions>>
    /\ UNCHANGED <<feature_jsonrpc_1, pc, req, cap_state, cap_result, result,
                   cancel_rx, race, found, called, responses, active_requests,
                   lock_owner, subscriptions, cancel_seen, progress_sender,
                   sends, tokens_seen, glue_vars>>

\* take_notification_stream, and the three methods built on it:
\* notification_rx.take(), Some(stream) the first time and None afterwards.
\* The methods borrow the server mutably: no handle future is alive, each
\* has returned or was not yet called.
take_notification_stream(method) ==
    /\ \A t \in Tasks : pc[t] \in {"idle", "done"}
    /\ Len(take_results) < MaxTakes
    /\ take_results' = Append(take_results, [method |-> method, some |-> notification_rx])
    /\ notification_rx' = FALSE
    /\ stream' = IF notification_rx THEN method ELSE stream
    /\ UNCHANGED <<notification_queue, received, enqueued>>
    /\ UNCHANGED <<codec_vars, hook_calls, handler_subscriptions>>
    /\ UNCHANGED <<feature_jsonrpc_1, pc, req, cap_state, cap_result, result,
                   cancel_rx, race, found, called, responses, active_requests,
                   lock_owner, subscriptions, cancel_seen, progress_sender,
                   sends, tokens_seen, glue_vars>>

\* Mutant: the stream yields the newest notification first.
stream_pick_last(q) == Len(q)

\* The position in the channel of the notification poll_recv returns.
stream_pick(q) == 1

\* NotificationStream::poll_next, under the filter of the stream taken: the
\* notification is received from the channel, and yielded if the filter
\* passes it.
stream_next ==
    /\ stream # "none"
    /\ notification_queue # <<>>
    /\ LET i == stream_pick(notification_queue)
           n == notification_queue[i]
       IN /\ notification_queue' =
                SubSeq(notification_queue, 1, i - 1)
                   \o SubSeq(notification_queue, i + 1, Len(notification_queue))
          /\ received' = IF stream_filter(stream, n)
                         THEN Append(received, n) ELSE received
    /\ UNCHANGED <<notification_rx, stream, enqueued, take_results>>
    /\ UNCHANGED <<codec_vars, hook_calls, handler_subscriptions>>
    /\ UNCHANGED <<feature_jsonrpc_1, pc, req, cap_state, cap_result, result,
                   cancel_rx, race, found, called, responses, active_requests,
                   lock_owner, subscriptions, cancel_seen, progress_sender,
                   sends, tokens_seen, glue_vars>>

\* tools/call requests with and without a progress token.
NotifyRequests ==
    { WithProgressToken(ToolCall(JNum("1"), NamedTool), JStr("a")),
      WithProgressToken(ToolCall(JNum("2"), NamedTool), JNum("7")),
      ToolCall(JNum("3"), NamedTool) }

\* One tools/call per task, reporting progress, beside the consumer.
NextNotify ==
    \/ \E t \in Tasks :
          \/ pc[t] = "idle" /\ \E r \in NotifyRequests : handle_tool_call_start(t, r)
          \/ tool_call_begin(t)
          \/ tool_call_poll(t)
          \/ progress_send(t)
          \/ call_tool_step(t)
          \/ select_step(t)
          \/ tool_call_end(t)
    \/ \E method \in TakeMethods : take_notification_stream(method)
    \/ stream_next

SpecNotify == Init /\ [][NextNotify]_vars

\* The slow call: a tools/call under id 2 whose call_tool reports progress and
\* never returns.
SlowCall == WithProgressToken(ToolCall(JNum("2"), NamedTool), JStr("a"))

\* What is handled beside it: a ping, a resources/read, a tools/call under
\* another id, and a cancellation naming that other id.
BesideSlow ==
    { MCPRequest("2.0", JNum("3"), "ping", NoParams),
      MCPRequest("2.0", JNum("3"), "resources/read",
                 [EmptyParams EXCEPT !.uri = JStr("u")]),
      ToolCall(JNum("1"), NamedTool),
      Cancelled("1") }

\* Task 1 handles the slow call and stays in its select!; task 2 handles the
\* requests of BesideSlow one after the other; the consumer takes its stream
\* before the calls and polls it.
NextSlow ==
    \/ handle_tool_call_start(1, SlowCall)
    \/ tool_call_begin(1)
    \/ tool_call_poll(1)
    \/ progress_send(1)
    \/ pc[2] = "idle" /\ \E r \in BesideSlow : handle_notification(2, r)
    \/ pc[2] = "idle" /\ \E r \in BesideSlow : handle_invoke(2, r)
    \/ pc[2] = "idle" /\ \E r \in BesideSlow : handle_tool_call_start(2, r)
    \/ capability_step(2)
    \/ handle_cancellation_remove(2)
    \/ tool_call_begin(2)
    \/ tool_call_poll(2)
    \/ call_tool_step(2)
    \/ select_step(2)
    \/ tool_call_end(2)
    \/ recycle(2)
    \/ \E method \in TakeMethods : take_notification_stream(method)
    \/ stream_next

\* The runtime polls task 2 whenever it can go on, its capability calls
\* return, the write guard is given to a waiter, and the consumer polls its
\* stream.
FairBesideSlow ==
    /\ WF_vars(capability_step(2))
    /\ WF_vars(tool_call_poll(2))
    /\ WF_vars(call_tool_step(2))
    /\ WF_vars(select_step(2))
    /\ SF_vars(handle_cancellation_remove(2))
    /\ SF_vars(tool_call_begin(2))
    /\ SF_vars(tool_call_end(2))
    /\ WF_vars(stream_next)

SpecSlow == Init /\ [][NextSlow]_vars /\ FairBesideSlow

-----------------------------------------------------------------------------
(* The transport glue: error conversion and the ready-made responses.      *)

\* The variants of MCPError that carry nothing.
UnitErrorKinds ==
    {"MissingParameters", "MissingToolName", "CommandTimeout", "OutputTooLarge"}

\* The variants of MCPError that carry a string (or an error shown as one).
StringErrorKinds ==
    {"InvalidJsonRpcVersion", "MethodNotFound", "UnknownTool", "UnknownPrompt",
     "UnknownResource", "ResourceNotFound", "StreamError", "RequestCancelled",
     "IoError", "JsonError"}

ErrorArgs == {"a", "b", "2"}

\* Every MCPError, over ErrorArgs.
MCPErrors ==
    { MCPError(k, "") : k \in UnitErrorKinds }
       \cup { MCPError(k, a) : k \in StringErrorKinds, a \in ErrorArgs }

\* e.to_json_rpc_error()
convert_error(e) ==
    /\ error_in' = e
    /\ error_out' = to_json_rpc_error(e)
    /\ UNCHANGED <<transport_out, notify_vars>>
    /\ UNCHANGED <<codec_vars, hook_calls, handler_subscriptions>>
    /\ UNCHANGED <<feature_jsonrpc_1, pc, req, cap_state, cap_result, result,
                   cancel_rx, race, found, called, responses, active_requests,
                   lock_owner, subscriptions, cancel_seen, progress_sender,
                   sends, tokens_seen>>

\* A line that does not parse as a request: MCPResponse::parse_error().
reject_malformed ==
    /\ transport_out' = MCPResponse_parse_error
    /\ UNCHANGED <<error_in, error_out, notify_vars>>
    /\ UNCHANGED <<codec_vars, hook_calls, handler_subscriptions>>
    /\ UNCHANGED <<feature_jsonrpc_1, pc, req, cap_state, cap_result, result,
                   cancel_rx, race, found, called, responses, active_requests,
                   lock_owner, subscriptions, cancel_seen, progress_sender,
                   sends, tokens_seen>>

\* A line over the size limit: MCPResponse::too_large().
reject_oversized ==
    /\ transport_out' = MCPResponse_too_large
    /\ UNCHANGED <<error_in, error_out, notify_vars>>
    /\ UNCHANGED <<codec_vars, hook_calls, handler_subscriptions>>
    /\ UNCHANGED <<feature_jsonrpc_1, pc, req, cap_state, cap_result, result,
                   cancel_rx, race, found, called, responses, active_requests,
                   lock_owner, subscriptions, cancel_seen, progress_sender,
                   sends, tokens_seen>>

\* The ids, payloads and error objects the constructors are called on.
ConstructorIds == {NoneV, JNum("1"), JStr("a")}

ConstructorPayloads == {JNull, JStr("test"), EmptyResult}

ConstructorErrors ==
    {JsonRpcError(-32601, "Method not found"), JsonRpcError(-32603, "a")}

\* MCPResponse::success(id, payload), v1_success, v2_success.
construct_success(ctor, id, payload) ==
    /\ ctor \in SuccessConstructors
    /\ ConstructorAvailable(ctor)
    /\ built' = [ctor |-> ctor, id |-> id, payload |-> payload,
                 err |-> NoJsonRpcError,
                 resp |-> Construct(ctor, id, payload, NoJsonRpcError)]
    /\ wire' = NoWire
    /\ UNCHANGED <<notify_vars, glue_vars>>
    /\ UNCHANGED <<hook_calls, handler_subscriptions>>
    /\ UNCHANGED <<feature_jsonrpc_1, pc, req, cap_state, cap_result,
                   result, cancel_rx, race, found, called, responses,
                   active_requests, lock_owner, subscriptions, cancel_seen,
                   progress_sender, sends, tokens_seen>>

\* MCPResponse::error(id, err), v1_error, v2_error.
construct_error(ctor, id, err) ==
    /\ ctor \in ErrorConstructors
    /\ ConstructorAvailable(ctor)
    /\ built' = [ctor |-> ctor, id |-> id, payload |-> NoneV, err |-> err,
                 resp |-> Construct(ctor, id, NoneV, err)]
    /\ wire' = NoWire
    /\ UNCHANGED <<notify_vars, glue_vars>>
    /\ UNCHANGED <<hook_calls, handler_subscriptions>>
    /\ UNCHANGED <<feature_jsonrpc_1, pc, req, cap_state, cap_result,
                   result, cancel_rx, race, found, called, responses,
                   active_requests, lock_owner, subscriptions, cancel_seen,
                   progress_sender, sends, tokens_seen>>

\* serde_json::to_string(&resp) on the response just built.
serialize_response ==
    /\ built # NoCall
    /\ wire = NoWire
    /\ wire' = Serialize(built.resp)
    /\ UNCHANGED <<built, notify_vars, glue_vars>>
    /\ UNCHANGED <<hook_calls, handler_subscriptions>>
    /\ UNCHANGED <<feature_jsonrpc_1, pc, req, cap_state, cap_result,
                   result, cancel_rx, race, found, called, responses,
                   active_requests, lock_owner, subscriptions, cancel_seen,
                   progress_sender, sends, tokens_seen>>

\* The constructors on every id, payload and error object, each response
\* serialised.
NextCodec ==
    \/ \E ctor \in SuccessConstructors, id \in ConstructorIds,
          payload \in ConstructorPayloads : construct_success(ctor, id, payload)
    \/ \E ctor \in ErrorConstructors, id \in ConstructorIds,
          err \in ConstructorErrors : construct_error(ctor, id, err)
    \/ serialize_response

SpecCodec == Init /\ [][NextCodec]_vars

\* The conversions alone, on every error.
NextGlue ==
    \/ \E e \in MCPErrors : convert_error(e)
    \/ reject_malformed
    \/ reject_oversized

SpecGlue == Init /\ [][NextGlue]_vars

\* The concurrent calls of handle, beside a transport that rejects malformed
\* and oversized lines.
NextTransport ==
    \/ Next
    \/ reject_malformed
    \/ reject_oversized

SpecTransport == Init /\ [][NextTransport]_vars

-----------------------------------------------------------------------------
(* Properties.                                                             *)

Response(t) == responses[t][1]

Answered(t) == pc[t] = "done" /\ req[t].id # NoneV

IsToolCall(t) == pc[t] # "idle" /\ req[t].id # NoneV /\ req[t].method = "tools/call"

IsCancellation(t) ==
    pc[t] # "idle" /\ req[t].id = NoneV /\ req[t].method = CancelledMethod

\* Task t takes the step handle_cancellation_remove.
CancelRemoveStep(t) == pc[t] = "cancel_lock" /\ pc'[t] # "cancel_lock"

\* Task t takes the step tool_call_end.
ToolCallEndStep(t) == pc[t] = "end_lock" /\ pc'[t] = "done"

\* C1: for every request whose id is absent, whatever its method, params and
\* version tag, handle returns no response.
C1_NotificationNoResponse ==
    \A t \in Tasks : (pc[t] # "idle" /\ req[t].id = NoneV) => responses[t] = <<>>

\* C1 witness: a notifications/cancelled that found and cancelled a call has
\* returned, with no response.
C1_Witness ==
    \E t \in Tasks :
        /\ pc[t] = "done" /\ req[t].id = NoneV
        /\ req[t].method = CancelledMethod /\ found[t] = "some"
        /\ responses[t] = <<>>

\* C2: a call of handle on a request with an id returns exactly one response
\* once its capability operation has returned or it was cancelled: none before
\* it returns, one when it returns, an error exactly when the outcome is a
\* failure and the payload exactly when it is a success.
C2_ExactlyOneResponse ==
    \A t \in Tasks :
        /\ Len(responses[t]) <= 1
        /\ pc[t] # "done" => responses[t] = <<>>
        /\ Answered(t) =>
              /\ Len(responses[t]) = 1
              /\ Response(t).error.some <=> ~result[t].ok
              /\ result[t].ok => Response(t).result = result[t].value
              /\ ~result[t].ok => Response(t).error.code = to_json_rpc_error_code(result[t].err)

\* C2 witness: a tools/call whose capability result and cancellation signal
\* were both ready has returned one response.
C2_Witness ==
    \E t \in Tasks :
        /\ Answered(t) /\ req[t].method = "tools/call" /\ race[t] = "both"
        /\ Len(responses[t]) = 1

\* C3 (as claimed): a notifications/cancelled with requestId "2" processed
\* while the tools/call with id "2" is in flight makes that call's outcome
\* RequestCancelled (-32800), and no success response is produced for it.
C3_CancelInFlightCancels ==
    \A t \in Tasks :
        (Answered(t) /\ req[t].id = JStr("2") /\ cancel_seen[t]) =>
            /\ Response(t).error.some
            /\ Response(t).error.code = -32800

\* C4 (as claimed): when the capability result and the cancellation signal are
\* both ready as the race is resolved, the outcome is the capability's result.
C4_RaceBiasedToResult ==
    \A t \in Tasks : race[t] = "both" => result[t] = cap_result[t]

\* C5 (as claimed): the response shape follows the request's version tag:
\* tag "2.0" gives jsonrpc "2.0" and exactly one of result/error; tag "1.0" or
\* no tag gives no jsonrpc field and, on error, a null result beside the error.
C5_ShapeFollowsTag ==
    \A t \in Tasks :
        Answered(t) =>
            /\ req[t].jsonrpc = "2.0" =>
                  /\ Response(t).jsonrpc = "2.0"
                  /\ (Response(t).result # NoneV) # Response(t).error.some
            /\ req[t].jsonrpc \in {"1.0", NoTag} =>
                  /\ Response(t).jsonrpc = NoTag
                  /\ Response(t).error.some => Response(t).result = JNull

PingScenario == MCPRequest(NoTag, JNum("1"), "ping", NoParams)

\* C6 (as claimed): {"id":1,"method":"ping"} with ping succeeding is answered
\* {jsonrpc:"2.0", id:1, result:{}}.
C6_PingAnsweredV2 ==
    \A t \in Tasks :
        (Answered(t) /\ req[t] = PingScenario /\ cap_result[t].ok) =>
            responses[t] = <<MCPResponse("2.0", JNum("1"), EmptyResult, NoJsonRpcError)>>

\* C6 (amended): {"id":1,"method":"ping"} with ping succeeding is answered
\* {id:1, result:{}}: no error and no jsonrpc field.
C6_PingAnsweredV1 ==
    \A t \in Tasks :
        (Answered(t) /\ req[t] = PingScenario /\ cap_result[t].ok) =>
            responses[t] = <<MCPResponse(NoTag, JNum("1"), EmptyResult, NoJsonRpcError)>>

\* C6 witness: the untagged ping with id 1 was answered after ping succeeded.
C6_Witness ==
    \E t \in Tasks :
        /\ Answered(t) /\ req[t] = PingScenario /\ cap_result[t].ok
        /\ called[t] = {"ping"}

\* C7 (as claimed): a request with an id whose version tag is neither "1.0"
\* nor "2.0" is answered with a 2.0-shaped error response.
C7_InvalidVersionV2Error ==
    \A t \in Tasks :
        (Answered(t) /\ ~validate_and_detect_version(req[t]).ok) =>
            /\ Response(t).jsonrpc = "2.0"
            /\ Response(t).error.some
            /\ Response(t).result = NoneV

\* C8: a request with an id whose method is not one of the thirteen routed
\* names is answered with an error of code -32601 in the step that takes it,
\* no capability operation is invoked, and the registry, the signals and the
\* subscription set are unchanged.
C8_UnknownMethod ==
    [][ \A t \in Tasks :
          (pc[t] = "idle" /\ pc'[t] # "idle" /\ req'[t].id # NoneV
             /\ req'[t].method \notin RoutedMethods) =>
              /\ pc'[t] = "done"
              /\ Len(responses'[t]) = 1
              /\ responses'[t][1].error.some
              /\ responses'[t][1].error.code = -32601
              /\ called'[t] = {}
              /\ UNCHANGED <<active_requests, cancel_rx, lock_owner, subscriptions>>
      ]_vars

\* C8 witness: an unknown method was answered -32601 while a tools/call was
\* registered and a URI subscribed.
C8_Witness ==
    \E t \in Tasks :
        /\ Answered(t) /\ req[t].method = "unknown/method"
        /\ Response(t).error.code = -32601
        /\ DOMAIN active_requests # {}
        /\ subscriptions # {}

\* A first cancel of the id task t's cancellation names was processed and
\* found an entry: the cancellation that found it, or the call whose signal it
\* sent, is still at hand.
FirstCancelDone(t) ==
    \E c \in Tasks \ {t} :
        \/ /\ IsCancellation(c) /\ found[c] = "some"
           /\ cancellation_target(req[c]) = cancellation_target(req[t])
        \/ /\ IsToolCall(c) /\ cancel_rx[c] = "fired"
           /\ registry_key(req[c]) = cancellation_target(req[t]).text

\* Task t's handle_cancellation_remove step changes nothing.
CancelStepNoOp(t) ==
    /\ UNCHANGED <<active_requests, cancel_rx, lock_owner>>
    /\ found'[t] = "absent"
    /\ "on_request_cancelled" \notin called'[t]

\* C9 (as claimed): after a first cancel of an id a second cancel of that id
\* changes nothing (registry unchanged, no signal sent, hook not invoked), and
\* the removal the cancelled call performs when it ends leaves the registry
\* unchanged.
C9_CancelIdempotent ==
    [][ \A t \in Tasks :
          /\ (CancelRemoveStep(t) /\ FirstCancelDone(t)) => CancelStepNoOp(t)
          /\ (ToolCallEndStep(t) /\ cancel_rx[t] = "fired") =>
                UNCHANGED active_requests
      ]_vars

\* C9 (amended): a second cancel of an id under which no tools/call is
\* registered at that moment changes nothing; the removal the cancelled call
\* performs when it ends removes no entry of its own, and leaves the registry
\* unchanged unless another tools/call registered the same id after the
\* cancel, whose entry it is that is removed.
C9_CancelIdempotentUnlessReused ==
    [][ \A t \in Tasks :
          /\ (CancelRemoveStep(t) /\ FirstCancelDone(t)
                /\ cancellation_target(req[t]).text \notin DOMAIN active_requests)
                => CancelStepNoOp(t)
          /\ (ToolCallEndStep(t) /\ cancel_rx[t] = "fired") =>
                LET key == registry_key(req[t])
                IN \/ /\ key \notin DOMAIN active_requests
                      /\ UNCHANGED active_requests
                   \/ /\ key \in DOMAIN active_requests
                      /\ active_requests[key] # t
                      /\ DOMAIN active_requests' = DOMAIN active_requests \ {key}
                      /\ \A k \in DOMAIN active_requests' :
                            active_requests'[k] = active_requests[k]
      ]_vars

\* C9 witness: a cancelled tools/call has ended with RequestCancelled, a second
\* cancellation naming its id has found no entry, and a tools/call under the
\* other key is still registered.
C9_Witness ==
    \E u \in Tasks : \E c \in Tasks \ {u} :
        /\ Answered(u) /\ req[u].method = "tools/call"
        /\ cancel_rx[u] = "fired" /\ result[u].err.kind = "RequestCancelled"
        /\ IsCancellation(c) /\ pc[c] = "done" /\ found[c] = "absent"
        /\ cancellation_target(req[c]).text = registry_key(req[u])

\* C10: a cancellation processed when no entry is registered under the id it
\* names (the call ended, or was cancelled already) has no effect: the registry
\* and every signal are unchanged, the hook is not invoked, no lock is kept,
\* and the outcome and the response of every call stay as they were.
C10_LateCancelNoEffect ==
    [][ \A t \in Tasks :
          (CancelRemoveStep(t)
             /\ cancellation_target(req[t]).text \notin DOMAIN active_requests) =>
              /\ UNCHANGED <<active_requests, cancel_rx, lock_owner, cap_state,
                             cap_result, result, responses>>
              /\ called' = called
              /\ found'[t] = "absent"
              /\ pc'[t] = "done"
      ]_vars

\* C10 witness: a call already cancelled waits to remove its entry, its outcome
\* RequestCancelled, and a later cancellation naming its id has returned
\* having found nothing.
C10_Witness ==
    \E u \in Tasks : \E c \in Tasks \ {u} :
        /\ pc[u] = "end_lock" /\ cancel_rx[u] = "fired"
        /\ result[u].err.kind = "RequestCancelled"
        /\ IsCancellation(c) /\ pc[c] = "done" /\ found[c] = "absent"
        /\ cancellation_target(req[c]).text = registry_key(req[u])

\* Task t's capability code takes the step progress_send.
ProgressSendStep(t) == sends'[t] = sends[t] + 1

\* C11: while no tools/call request has carried a progress token, no Progress
\* notification was ever put on the channel, however many times the capability
\* code called send.
C11_NoTokenNoProgress ==
    tokens_seen = {} =>
        /\ enqueued = <<>>
        /\ notification_queue = <<>>
        /\ received = <<>>

\* C11 witness: no request carried a token, a finished call's capability code
\* called send MaxSends times, and nothing was put on the channel.
C11_Witness ==
    /\ tokens_seen = {}
    /\ enqueued = <<>>
    /\ \E t \in Tasks : pc[t] = "done" /\ sends[t] = MaxSends

\* C12: every tools/call that has begun holds a progress handle bound to its
\* own request's token; a send on a handle with a token puts exactly one
\* Progress notification carrying that request's token on the channel, and a
\* send on a handle without a token puts nothing on it.
C12_ProgressHandlePerCall ==
    /\ [](\A t \in Tasks :
            pc[t] \in {"select", "end_lock", "done"} =>
                progress_sender[t] = ProgressSender_new(req[t].meta))
    /\ [][ \A t \in Tasks :
             ProgressSendStep(t) =>
                 IF req[t].meta # NoneV
                 THEN /\ enqueued' = Append(enqueued, Progress(req[t].meta, sends'[t]))
                      /\ notification_queue' =
                            Append(notification_queue, Progress(req[t].meta, sends'[t]))
                 ELSE UNCHANGED <<enqueued, notification_queue>>
         ]_vars

\* C12 witness: two calls with different tokens are running at once, and each
\* has put a notification with its own token on the channel.
C12_Witness ==
    \E t \in Tasks : \E u \in Tasks \ {t} :
        /\ pc[t] = "select" /\ pc[u] = "select"
        /\ req[t].meta = JStr("a") /\ req[u].meta = JNum("7")
        /\ enqueued = <<Progress(JNum("7"), 1), Progress(JStr("a"), 1)>>

\* C13: the consumer receives the notifications in the order they were put on
\* the channel by all producers together, each at most once: what it has been
\* yielded is, in order, what its filter passes of a prefix of everything
\* enqueued, and the channel holds exactly the rest.
C13_QueueFifo ==
    \E k \in 0..Len(enqueued) :
        /\ notification_queue = SubSeq(enqueued, k + 1, Len(enqueued))
        /\ received = SelectSeq(SubSeq(enqueued, 1, k),
                                LAMBDA n : stream_filter(stream, n))

\* C13 witness: the consumer has been yielded two notifications of two
\* different producers.
C13_Witness ==
    /\ Len(received) = 2
    /\ received[1].progress_token # received[2].progress_token
    /\ notification_queue = <<>>

\* C14: over any sequence of calls of the four take methods, the first call
\* returns a stream and every later call returns none.
C14_TakenOnce ==
    /\ \A i \in 1..Len(take_results) : take_results[i].some <=> i = 1
    /\ notification_rx <=> take_results = <<>>
    /\ stream # "none" <=> take_results # <<>>
    /\ take_results # <<>> => stream = take_results[1].method

\* C14 witness: progress_stream returned a stream and a later
\* take_notification_stream returned none.
C14_Witness ==
    /\ Len(take_results) = MaxTakes
    /\ take_results[1] = [method |-> "progress_stream", some |-> TRUE]
    /\ take_results[Len(take_results)] =
          [method |-> "take_notification_stream", some |-> FALSE]

\* Task t's handle returns in this step.
ReturnStep(t) == pc[t] # "done" /\ pc'[t] = "done"

\* C15: the subscription set changes only in the step that answers a
\* resources/subscribe or resources/unsubscribe whose capability call has
\* succeeded, which adds the URI for subscribe and removes it for unsubscribe
\* and answers with a success; when the capability call failed or params or
\* uri was missing, the set is unchanged and the answer is an error.
C15_SubscribeAfterSuccess ==
    [][ /\ \A t \in Tasks :
             (ReturnStep(t) /\ IsSubscriptionMethod(req'[t].method)
                /\ req'[t].id # NoneV) =>
                 IF pc[t] = "sub_lock"
                 THEN /\ cap_result[t].ok
                      /\ "subscribe" \in called[t] \/ "unsubscribe" \in called[t]
                      /\ subscriptions' =
                            IF req[t].method = "resources/subscribe"
                            THEN subscriptions \cup {req[t].params.uri.text}
                            ELSE subscriptions \ {req[t].params.uri.text}
                      /\ ~responses'[t][1].error.some
                 ELSE /\ UNCHANGED subscriptions
                      /\ responses'[t][1].error.some
        /\ subscriptions' # subscriptions =>
              \E t \in Tasks : pc[t] = "sub_lock" /\ ReturnStep(t)
      ]_vars

\* C15 witness: with a URI subscribed, a resources/unsubscribe whose capability
\* call failed has been answered with an error and the URI is still in the set.
C15_Witness ==
    \E t \in Tasks :
        /\ Answered(t) /\ req[t].method = "resources/unsubscribe"
        /\ cap_state[t] = "ready" /\ ~cap_result[t].ok
        /\ Response(t).error.some
        /\ subscriptions = {req[t].params.uri.text}

\* C16: for every failure kind to_json_rpc_error returns the code of the fixed
\* table: InvalidJsonRpcVersion -32600; MethodNotFound -32601;
\* MissingParameters, MissingToolName, UnknownPrompt, UnknownResource and
\* ResourceNotFound -32602; RequestCancelled -32800; every other kind -32603.
C16_ErrorCodeTable ==
    error_in # NoError =>
        /\ error_out.some
        /\ error_out.code =
              CASE error_in.kind = "InvalidJsonRpcVersion" -> -32600
                [] error_in.kind = "MethodNotFound" -> -32601
                [] error_in.kind \in {"MissingParameters", "MissingToolName",
                                      "UnknownPrompt", "UnknownResource",
                                      "ResourceNotFound"} -> -32602
                [] error_in.kind = "RequestCancelled" -> -32800
                [] OTHER -> -32603

\* C16 witness: a RequestCancelled error was converted, to code -32800.
C16_Witness ==
    /\ error_in = MCPError("RequestCancelled", "2")
    /\ error_out.code = -32800

UnknownEntityKinds ==
    {"UnknownTool", "UnknownPrompt", "UnknownResource", "ResourceNotFound"}

\* C17 (as claimed): capability failures of kind UnknownTool, UnknownPrompt,
\* UnknownResource and ResourceNotFound are all answered with one and the same
\* error code.
C17_UniformUnknownEntity ==
    \A t \in Tasks : \A u \in Tasks :
        (Answered(t) /\ Answered(u)
           /\ result[t].err.kind \in UnknownEntityKinds
           /\ result[u].err.kind \in UnknownEntityKinds) =>
            Response(t).error.code = Response(u).error.code

\* The capability operation of task t has returned to handle: for tools/call,
\* the race ended with the capability's branch.
CapabilityReturned(t) ==
    /\ cap_state[t] = "ready"
    /\ "RequestCancelled" # result[t].err.kind

C19_ResponseCarriesId ==
    /\ \A t \in Tasks : Answered(t) => Response(t).id = req[t].id
    /\ transport_out # NoResponse => transport_out.id = NoneV

\* C19 witness: two requests in flight at once, one with the integer id 2 and
\* one with the string id "2", were each answered under their own id, and the
\* transport has built a ready-made response.
C19_Witness ==
    /\ \E t \in Tasks : \E u \in Tasks \ {t} :
          /\ Answered(t) /\ Response(t).id = JNum("2")
          /\ Answered(u) /\ Response(u).id = JStr("2")
    /\ transport_out = MCPResponse_parse_error

\* C20: parse_error and too_large each build an error response (is_error
\* true, error set) whose code is -32700.
C20_ReadyMadeErrors ==
    transport_out # NoResponse =>
        /\ response_is_error(transport_out)
        /\ ~response_is_success(transport_out)
        /\ transport_out.error.some
        /\ transport_out.error.code = -32700

\* C20 witness: too_large was built in a build with the jsonrpc-1 feature.
C20_Witness ==
    /\ feature_jsonrpc_1
    /\ transport_out.error.message = "Request too large"
    /\ transport_out.result = JNull

\* C21: a response built by success, v1_success or v2_success has result equal
\* to the payload and no error; one built by error, v1_error or v2_error has
\* the error set; is_success and is_error are complementary on every response
\* the constructors build; v2_* responses satisfy is_v2 and v1_* responses
\* satisfy is_v1.
C21_ConstructorsAndPredicates ==
    built # NoCall =>
        /\ built.ctor \in SuccessConstructors =>
              /\ built.resp.result = built.payload
              /\ ~built.resp.error.some
        /\ built.ctor \in ErrorConstructors =>
              /\ built.resp.error.some
              /\ built.resp.error = built.err
        /\ built.resp.id = built.id
        /\ response_is_success(built.resp) # response_is_error(built.resp)
        /\ built.ctor \in {"v2_success", "v2_error"} => response_is_v2(built.resp)
        /\ built.ctor \in {"v1_success", "v1_error"} => response_is_v1(built.resp)

\* v1_error was called in the jsonrpc-1 build.
C21_Witness ==
    /\ built.ctor = "v1_error"
    /\ built.resp.result = JNull
    /\ response_is_v1(built.resp)
    /\ response_is_error(built.resp)

\* C22: on the wire, every V1-shaped response has both the result and the
\* error key and no jsonrpc key; every V2-shaped response has jsonrpc "2.0"
\* and exactly one of result and error.
C22_WireShape ==
    wire # NoWire =>
        /\ built.resp.jsonrpc = NoTag =>
              /\ {"result", "error"} \subseteq wire.present
              /\ "jsonrpc" \notin wire.present
        /\ built.resp.jsonrpc = "2.0" =>
              /\ "jsonrpc" \in wire.present
              /\ wire.jsonrpc = "2.0"
              /\ ("result" \in wire.present) # ("error" \in wire.present)

\* Task t is suspended in a call of a capability operation: an arm's operation,
\* call_tool inside the select!, or the on_request_cancelled hook.
AwaitingCapability(t) ==
    \/ pc[t] = "await_cap"
    \/ pc[t] = "select" /\ cap_state[t] = "running"
    \/ pc[t] = "hook"

\* C23: no task holds the registry's write guard while it awaits a capability
\* operation, the on_request_cancelled hook included; the guard lives for the
\* single insert or remove only, so none is held between steps.
C23_NoLockAcrossAwait ==
    /\ \A t \in Tasks : AwaitingCapability(t) => lock_owner # t
    /\ lock_owner = 0

\* Task t is a tools/call between its registration and its removal.
Registered(t) == IsToolCall(t) /\ pc[t] \in {"select", "end_lock"}

\* The registry holds an entry under t's key and its sender is t's.
OwnsEntry(t) ==
    /\ registry_key(req[t]) \in DOMAIN active_requests
    /\ active_requests[registry_key(req[t])] = t

\* C24: at every state, calls with the same id overlapping included, each
\* tools/call in flight and not yet cancelled has exactly one registry entry
\* under its id, whose signal is its own; the entry stays until the call
\* completes or is cancelled.
C24_OwnEntryWhileInFlight ==
    \A t \in Tasks :
        (Registered(t) /\ cancel_rx[t] # "fired") => OwnsEntry(t)

\* Task t takes the step tool_call_begin.
ToolCallBeginStep(t) == pc[t] = "tc_lock" /\ pc'[t] = "select"

\* C24 (amended): the step that registers a tools/call leaves the registry
\* with an entry under its id whose signal is its own, and that entry stays
\* until the call itself ends, a cancellation naming the key removes it, or
\* another tools/call with the same id begins (replacing it) or ends (removing
\* it); a call whose sender is still alive owns its entry.
C24_OwnEntryUnlessIdReused ==
    /\ [](\A t \in Tasks :
            (Registered(t) /\ cancel_rx[t] = "pending") => OwnsEntry(t))
    /\ [][ \A t \in Tasks :
             /\ ToolCallBeginStep(t) => OwnsEntry(t)'
             /\ (OwnsEntry(t) /\ ~OwnsEntry(t)') =>
                   \/ ToolCallEndStep(t)
                   \/ \E c \in Tasks :
                         /\ CancelRemoveStep(c)
                         /\ cancellation_target(req[c]).text = registry_key(req[t])
                   \/ \E u \in Tasks \ {t} :
                         /\ registry_key(req'[u]) = registry_key(req[t])
                         /\ ToolCallBeginStep(u) \/ ToolCallEndStep(u) ]_vars

\* C24 witness: two tools/call with the same id overlap; the newer one owns
\* the entry and the older one, not cancelled, has none.
C24_Witness ==
    \E t, u \in Tasks :
        /\ t # u /\ Registered(t) /\ Registered(u)
        /\ registry_key(req[t]) = registry_key(req[u])
        /\ OwnsEntry(u) /\ cancel_rx[u] = "pending"
        /\ cancel_rx[t] = "closed"

\* C25: when a tools/call begins for an id that has an entry, the registry
\* afterwards holds a single entry for that id, carrying the newer call's
\* signal, every other entry as before; the step raises no error (the call
\* goes on to its race), returns no response for any call and sends no
\* notification, and calls no hook.
C25_SilentReplacement ==
    [][ \A t \in Tasks :
          (ToolCallBeginStep(t) /\ registry_key(req[t]) \in DOMAIN active_requests) =>
              /\ DOMAIN active_requests' = DOMAIN active_requests
              /\ active_requests'[registry_key(req[t])] = t
              /\ \A k \in DOMAIN active_requests \ {registry_key(req[t])} :
                    active_requests'[k] = active_requests[k]
              /\ cancel_rx'[t] = "pending"
              /\ UNCHANGED <<responses, result, notification_queue, enqueued,
                             called, hook_calls>>
              /\ \A u \in Tasks \ {t} : pc'[u] = pc[u] ]_vars

\* C25 witness: a second tools/call with id 2 has just replaced the entry of
\* the first; neither has a result or a response.
C25_Witness ==
    \E t, u \in Tasks :
        /\ t # u /\ pc[t] = "select" /\ pc[u] = "select"
        /\ IsToolCall(t) /\ IsToolCall(u)
        /\ registry_key(req[t]) = registry_key(req[u])
        /\ DOMAIN active_requests = {registry_key(req[u])}
        /\ OwnsEntry(u)
        /\ cancel_rx[t] # "fired"
        /\ result[t] = NoResult /\ result[u] = NoResult
        /\ responses[t] = <<>> /\ responses[u] = <<>>

\* C26: a tools/call ends with RequestCancelled only if a cancellation naming
\* its registry key was processed while its entry was present, that is, only
\* if its own signal was sent; another call with the same id beginning or
\* ending, or the sender being dropped, does not make a call report
\* cancellation.
C26_CancelledOnlyByCancellation ==
    \A t \in Tasks :
        (IsToolCall(t) /\ result[t].err.kind = "RequestCancelled") =>
            cancel_rx[t] = "fired"

\* Task t is a tools/call that answered with RequestCancelled.
ReturnedCancelled(t) ==
    /\ IsToolCall(t) /\ pc[t] = "done"
    /\ result[t].err.kind = "RequestCancelled"
    /\ Len(responses[t]) = 1 /\ Response(t).error.code = -32800

\* C27: with a call_tool that never returns, once a cancellation naming the id
\* of an in-flight tools/call has been processed, that call's handle
\* eventually returns, with the RequestCancelled error.
C27_CancelledCallReturns ==
    \A t \in Tasks :
        (IsToolCall(t) /\ cancel_seen[t]) ~> ReturnedCancelled(t)

\* Task t starts handling a notifications/cancelled.
CancellationArrives(t) ==
    /\ pc[t] = "idle" /\ pc'[t] # "idle"
    /\ req'[t].id = NoneV /\ req'[t].method = CancelledMethod

\* C28: processing notifications/cancelled for an id that has an entry removes
\* that entry and no other, sends that entry's signal, and calls
\* on_request_cancelled once, with that id and the reason given when it is a
\* string and none otherwise (the signal reaches a receiver still waiting; one
\* its select! has dropped already is left as it is); for an id with no entry
\* the registry is unchanged and the hook is not called; a notification with
\* no params or no string requestId returns at once, registry unchanged and
\* hook not called.
C28_CancelHitAndMiss ==
    /\ [](\A t \in Tasks :
            /\ Len(hook_calls[t]) <= 1
            /\ hook_calls[t] # <<>> => (IsCancellation(t) /\ found[t] = "some"))
    /\ [][ \A t \in Tasks :
             /\ (CancelRemoveStep(t)
                   /\ req[t].params.requestId.text \in DOMAIN active_requests) =>
                   LET id == req[t].params.requestId.text
                   IN /\ DOMAIN active_requests' = DOMAIN active_requests \ {id}
                      /\ \A k \in DOMAIN active_requests' :
                            active_requests'[k] = active_requests[k]
                      /\ cancel_rx'[active_requests[id]] =
                            IF cancel_rx[active_requests[id]] = "pending"
                            THEN "fired" ELSE cancel_rx[active_requests[id]]
                      /\ \A u \in Tasks \ {active_requests[id]} :
                            cancel_rx'[u] = cancel_rx[u]
                      /\ hook_calls'[t] =
                            <<[request_id |-> id,
                               reason |-> IF req[t].params.reason.type = "string"
                                          THEN req[t].params.reason ELSE NoneV]>>
             /\ (CancelRemoveStep(t)
                   /\ req[t].params.requestId.text \notin DOMAIN active_requests) =>
                   UNCHANGED <<active_requests, cancel_rx, hook_calls, called>>
             /\ (CancellationArrives(t)
                   /\ (~req'[t].params.present
                         \/ req'[t].params.requestId.type # "string")) =>
                   /\ pc'[t] = "done"
                   /\ UNCHANGED <<active_requests, cancel_rx, hook_calls, called>>
         ]_vars

\* C28 witness: a cancellation naming "2" with the reason "r" found the entry
\* of the tools/call with id 2 and called the hook with both.
C28_Witness ==
    \E t \in Tasks :
        /\ IsCancellation(t) /\ pc[t] = "hook" /\ found[t] = "some"
        /\ hook_calls[t] = <<[request_id |-> "2", reason |-> JStr("r")]>>
        /\ active_requests = NoRegistry
        /\ \E u \in Tasks : IsToolCall(u) /\ cancel_rx[u] = "fired"

\* C29: the step in which a tools/call returns, whatever its outcome, leaves
\* the registry with no entry under that call's id; and whenever no tools/call
\* is in flight the registry is empty.
C29_NoEntryAfterReturn ==
    /\ [][ \A t \in Tasks :
             (ReturnStep(t) /\ IsToolCall(t)) =>
                 registry_key(req[t]) \notin DOMAIN active_requests' ]_vars
    /\ []((\A t \in Tasks : ~(IsToolCall(t) /\ pc[t] # "done"))
            => active_requests = NoRegistry)

\* C29 witness: a tools/call that failed its params checks and a tools/call
\* that was cancelled have both returned, and the registry is empty.
C29_Witness ==
    \E t, u \in Tasks :
        /\ IsToolCall(t) /\ pc[t] = "done"
        /\ ~result[t].ok /\ "call_tool" \notin called[t]
        /\ result[t].err.kind # "RequestCancelled"
        /\ IsToolCall(u) /\ pc[u] = "done"
        /\ result[u].err.kind = "RequestCancelled"
        /\ active_requests = NoRegistry

\* Task t handles a request of a method other than tools/call.
IsOtherCall(t) ==
    pc[t] # "idle" /\ req[t].id # NoneV /\ req[t].method # "tools/call"

\* C30: a request of a method other than tools/call never has a registry
\* entry, a cancellation signal or a progress handle, and never ends with
\* RequestCancelled: its outcome is what its capability call returned; a
\* cancellation naming the id of such a request while it is in flight changes
\* nothing of it and calls no hook.
C30_OnlyToolsCallCancellable ==
    /\ [](\A t \in Tasks :
            IsOtherCall(t) =>
                /\ \A k \in DOMAIN active_requests : active_requests[k] # t
                /\ cancel_rx[t] = "none"
                /\ progress_sender[t] = NoSender
                /\ result[t].err.kind # "RequestCancelled"
                /\ pc[t] = "done" =>
                      /\ result[t] = cap_result[t]
                      /\ Response(t) = handle_response(req[t].id, cap_result[t]))
    /\ [][ \A c \in Tasks :
             (CancelRemoveStep(c)
                /\ \E t \in Tasks :
                      /\ IsOtherCall(t) /\ pc[t] # "done"
                      /\ req[t].id.text = req[c].params.requestId.text
                /\ ~\E u \in Tasks :
                      /\ Registered(u)
                      /\ registry_key(req[u]) = req[c].params.requestId.text) =>
                 /\ UNCHANGED <<active_requests, cancel_rx, hook_calls, cap_state,
                                cap_result, result, responses, lock_owner,
                                subscriptions>>
                 /\ "on_request_cancelled" \notin called'[c]
                 /\ \A t \in Tasks \ {c} : pc'[t] = pc[t] /\ called'[t] = called[t]
         ]_vars

\* C30 witness: a resources/read under id 2, carrying a progress token, has
\* answered with what read_resource returned, beside a cancellation naming "2"
\* that found nothing.
C30_Witness ==
    \E t, c \in Tasks :
        /\ IsOtherCall(t) /\ req[t].method = "resources/read" /\ pc[t] = "done"
        /\ req[t].meta # NoneV
        /\ result[t].ok /\ response_is_success(Response(t))
        /\ IsCancellation(c) /\ pc[c] = "done" /\ found[c] = "absent"
        /\ cancellation_target(req[c]).text = req[t].id.text
        /\ hook_calls[c] = <<>>

\* The slow call is in flight and its call_tool has not returned.
SlowInFlight ==
    /\ pc[1] = "select" /\ req[1] = SlowCall /\ cap_state[1] = "running"

\* C31: while a tools/call is in flight and its capability call has not
\* returned, a request of another method, a tools/call with another id and a
\* cancellation naming another id, handled meanwhile, each return, and the
\* notifications on the channel are consumed by a consumer holding the stream.
C31_SlowCallBlocksNothing ==
    /\ (SlowInFlight /\ pc[2] \notin {"idle", "done"})
          ~> (SlowInFlight /\ pc[2] = "done")
    /\ (SlowInFlight /\ stream # "none" /\ notification_queue # <<>>)
          ~> (SlowInFlight /\ notification_queue = <<>>)

\* C31 witness: beside the slow call, still waiting for call_tool, a tools/call
\* with id 1 has answered with its result and the consumer has been yielded a
\* Progress notification of the slow call.
C31_Witness ==
    /\ SlowInFlight
    /\ pc[2] = "done" /\ IsToolCall(2) /\ result[2].ok
    /\ response_is_success(Response(2))
    /\ received # <<>> /\ notification_queue = <<>>

\* The params of request r fail the checks of its arm: the object is absent,
\* or the arm's required field is absent or not a string.
ParamsRejected(r) ==
    /\ RequiresParams(r.method)
    /\ \/ ~r.params.present
       \/ /\ RequiredField(r.method) # ""
          /\ r.params[RequiredField(r.method)].type # "string"

\* C32: a request of tools/call, resources/read, resources/subscribe,
\* resources/unsubscribe, prompts/get, logging/setLevel or completion/complete
\* whose params object is absent, or whose required string field is absent or
\* not a string, is answered with an error of code -32602 and its capability
\* operation is not called; initialize, ping and the list methods with params
\* absent call their operation and answer with what it returned.
C32_InvalidParamsRejected ==
    \A t \in Tasks :
        /\ (Answered(t) /\ ParamsRejected(req[t])) =>
              /\ Len(responses[t]) = 1
              /\ Response(t).error.some
              /\ Response(t).error.code = -32602
              /\ CapabilityOp(req[t].method) \notin called[t]
        /\ (Answered(t) /\ req[t].method \in RoutedMethods
              /\ ~RequiresParams(req[t].method) /\ ~req[t].params.present) =>
              /\ CapabilityOp(req[t].method) \in called[t]
              /\ Response(t) = handle_response(req[t].id, cap_result[t])

\* The request task t is handling in the step it takes: the one it starts
\* with when the step is the call of handle.
SteppingRequest(t) == IF pc[t] = "idle" THEN req'[t] ELSE req[t]

\* C33: a step of handle changes the registry only when the request is a
\* tools/call or a notifications/cancelled, and the subscription set only when
\* it is a resources/subscribe or resources/unsubscribe: initialize, ping, the
\* list methods, resources/read, prompts/get, logging/setLevel,
\* completion/complete, unknown methods and every other notification leave
\* both unchanged, tools/call and notifications/cancelled leave the
\* subscription set unchanged, subscribe and unsubscribe leave the registry
\* unchanged.
C33_FrameOfHandle ==
    [][ \A t \in Tasks :
          pc'[t] # pc[t] =>
              /\ ~(\/ /\ SteppingRequest(t).method = "tools/call"
                      /\ SteppingRequest(t).id # NoneV
                   \/ /\ SteppingRequest(t).method = CancelledMethod
                      /\ SteppingRequest(t).id = NoneV) =>
                    UNCHANGED active_requests
              /\ ~(/\ IsSubscriptionMethod(SteppingRequest(t).method)
                   /\ SteppingRequest(t).id # NoneV) =>
                    UNCHANGED subscriptions ]_vars

\* C33 witness: a resources/read has been answered with its content while a
\* tools/call is registered and a URI is subscribed.
C33_Witness ==
    \E t, u \in Tasks :
        /\ pc[t] = "done" /\ req[t].method = "resources/read" /\ req[t].id # NoneV
        /\ result[t].ok
        /\ Registered(u) /\ OwnsEntry(u)
        /\ subscriptions = {"u"}

\* Request r with its version tag replaced by "2.0".
Retagged(r) == [r EXCEPT !.jsonrpc = "2.0"]

\* The outcomes handle may reach for a request with an id, given what the
\* request is apart from its tag.
OutcomesOf(r) ==
    (IF r.method \notin RoutedMethods
     THEN {Err(MCPError("MethodNotFound", r.method))}
     ELSE IF validate_params(r) # NoError
     THEN {Err(validate_params(r))}
     ELSE CapabilityOutcomes(CapabilityOp(r.method), CapabilityArg(r)))
    \cup (IF r.method = "tools/call"
          THEN {Err(MCPError("RequestCancelled", registry_key(r)))} ELSE {})

\* C34: what handle does with a request does not depend on its version tag
\* (absent, "1.0", "2.0" or another literal): the capability operation called,
\* the result or error payload of the answer, and the registry and
\* subscription-set changes are those of the same request tagged "2.0"; a
\* request whose tag fails detection is routed like any other.
C34_RoutingIgnoresTag ==
    /\ [](\A t \in Tasks :
            pc[t] # "idle" =>
                /\ called[t] \ {"on_request_cancelled"} \subseteq
                      (IF /\ ~is_notification(Retagged(req[t]))
                          /\ req[t].method \in RoutedMethods
                          /\ validate_params(Retagged(req[t])) = NoError
                       THEN {CapabilityOp(req[t].method)} ELSE {})
                /\ is_notification(Retagged(req[t])) => responses[t] = <<>>
                /\ (pc[t] = "done" /\ ~is_notification(Retagged(req[t]))) =>
                      /\ result[t] \in OutcomesOf(Retagged(req[t]))
                      /\ result[t].err.kind # "RequestCancelled" =>
                            called[t] = (IF result[t] \in CapabilityOutcomes(
                                               CapabilityOp(req[t].method),
                                               CapabilityArg(req[t]))
                                         THEN {CapabilityOp(req[t].method)} ELSE {})
                      /\ Response(t).result =
                            handle_response(req[t].id, result[t]).result
                      /\ Response(t).error =
                            handle_response(req[t].id, result[t]).error)
    /\ [][ \A t \in Tasks :
             pc'[t] # pc[t] =>
                 /\ \A k \in (DOMAIN active_requests \cup DOMAIN active_requests') :
                       (k \in DOMAIN active_requests /\ k \in DOMAIN active_requests'
                          /\ active_requests'[k] = active_requests[k])
                       \/ k = registry_key(Retagged(SteppingRequest(t)))
                       \/ k = cancellation_target(Retagged(SteppingRequest(t))).text
                 /\ subscriptions' # subscriptions =>
                       subscriptions' = subscriptions_apply(subscriptions,
                                            SteppingRequest(t).method,
                                            CapabilityArg(Retagged(SteppingRequest(t))))
         ]_vars

\* C34 witness: a resources/subscribe tagged "9.9", whose version detection
\* fails, has called subscribe, changed the subscription set and been
\* answered with a success.
C34_Witness ==
    \E t \in Tasks :
        /\ pc[t] = "done" /\ req[t].id # NoneV
        /\ ~validate_and_detect_version(req[t]).ok
        /\ req[t].method = "resources/subscribe"
        /\ called[t] = {"subscribe"}
        /\ result[t].ok /\ response_is_success(Response(t))
        /\ CapabilityArg(req[t]) \in subscriptions

\* C35: on every request handled, version detection yields V2 for the tag
\* "2.0", V1 for the tag "1.0" or no tag, and the failure
\* InvalidJsonRpcVersion carrying the literal for every other tag; is_v2 holds
\* exactly for "2.0", is_v1 exactly for "1.0" or no tag, and never both.
C35_VersionDetection ==
    \A t \in Tasks :
        pc[t] # "idle" =>
            /\ req[t].jsonrpc = "2.0" =>
                  /\ validate_and_detect_version(req[t]).ok
                  /\ validate_and_detect_version(req[t]).version = "V2_0"
            /\ req[t].jsonrpc \in {"1.0", NoTag} =>
                  /\ validate_and_detect_version(req[t]).ok
                  /\ validate_and_detect_version(req[t]).version = "V1_0"
            /\ req[t].jsonrpc \notin {"2.0", "1.0", NoTag} =>
                  /\ ~validate_and_detect_version(req[t]).ok
                  /\ validate_and_detect_version(req[t]).err =
                        MCPError("InvalidJsonRpcVersion", req[t].jsonrpc)
            /\ request_is_v2(req[t]) <=> req[t].jsonrpc = "2.0"
            /\ request_is_v1(req[t]) <=> req[t].jsonrpc \in {"1.0", NoTag}
            /\ ~(request_is_v1(req[t]) /\ request_is_v2(req[t]))

\* C35 witness: a request tagged "9.9" is being handled beside one tagged
\* "2.0"; detection fails on the first, carrying the literal.
C35_Witness ==
    \E t, u \in Tasks :
        /\ pc[t] # "idle" /\ req[t].jsonrpc = "9.9"
        /\ validate_and_detect_version(req[t]).err.arg = "9.9"
        /\ ~request_is_v1(req[t]) /\ ~request_is_v2(req[t])
        /\ pc[u] # "idle" /\ request_is_v2(req[u])

\* C36: a cancellation whose requestId is the characters of a call's id
\* value, the integer 2 or the string "2" alike, finds that call's entry and
\* sends its signal; a requestId that differs from the id value does not.
C36_CancelMatchesBothIdForms ==
    [][ \A c \in Tasks :
          CancelRemoveStep(c) =>
              \A u \in Tasks :
                  (Registered(u) /\ OwnsEntry(u) /\ cancel_rx[u] = "pending") =>
                      (cancel_rx'[u] = "fired"
                          <=> req[u].id.text = req[c].params.requestId.text)
      ]_vars

-----------------------------------------------------------------------------
(* resources/subscribe and resources/unsubscribe on one URI, concurrently. *)

SubscribeRequests ==
    { MCPRequest("2.0", id, m, [EmptyParams EXCEPT !.uri = JStr("u")]) :
          id \in {JNum("1"), JNum("2")},
          m \in {"resources/subscribe", "resources/unsubscribe"} }

\* At most MaxTasks calls of handle in flight at once, each a subscribe or an
\* unsubscribe of the same URI: the capability call (server.rs 267, 283) and
\* the update of the server's set (server.rs 268, 284) are separate steps.
NextSubscribe ==
    \E t \in Tasks :
        \/ pc[t] = "idle" /\ \E r \in SubscribeRequests : handle_invoke(t, r)
        \/ capability_step(t)
        \/ subscription_update(t)
        \/ recycle(t)

SpecSubscribe == Init /\ [][NextSubscribe]_vars

\* C37: once the concurrent resources/subscribe and resources/unsubscribe
\* requests for a URI have all completed, the URI is in the server's
\* subscription set exactly when the last operation the capability applied
\* successfully to it was subscribe.
C37_SubscriptionsFollowCapabilityOrder ==
    (\A t \in Tasks : pc[t] \in {"idle", "done"}) =>
        subscriptions = handler_subscriptions

-----------------------------------------------------------------------------
(* A tools/call that reports progress, and the cancellation that names it. *)

AbandonRequests ==
    { WithProgressToken(ToolCall(JNum("2"), NamedTool), JStr("a")),
      Cancelled("2") }

\* At most MaxTasks calls of handle in flight at once, each the call with the
\* progress token or the cancellation naming its id; the capability code sends
\* progress while the select! polls it (server.rs 378-381).
NextAbandon ==
    \E t \in Tasks :
        \/ pc[t] = "idle" /\ \E r \in AbandonRequests : handle_notification(t, r)
        \/ pc[t] = "idle" /\ \E r \in AbandonRequests : handle_tool_call_start(t, r)
        \/ handle_cancellation_remove(t)
        \/ handle_cancellation_hook_return(t)
        \/ tool_call_begin(t)
        \/ tool_call_poll(t)
        \/ progress_send(t)
        \/ call_tool_step(t)
        \/ select_step(t)
        \/ tool_call_end(t)
        \/ recycle(t)

SpecAbandon == Init /\ [][NextAbandon]_vars

\* C38: once a tools/call has lost the race to cancellation, no further
\* Progress notification from its progress handle is enqueued: the call's
\* capability code takes no send step, and whatever is enqueued from then on
\* comes from the send of a call that has not lost.
C38_NoProgressAfterCancelled ==
    [][ LET \* The select! of t's tools/call completed with its cancellation
            \* branch.
            LostToCancellation(t) ==
                /\ pc[t] \in {"end_lock", "done"}
                /\ req[t].method = "tools/call"
                /\ result[t].err.kind = "RequestCancelled"
        IN /\ \A t \in Tasks : LostToCancellation(t) => ~ProgressSendStep(t)
           /\ enqueued' # enqueued =>
                 \E u \in Tasks : ~LostToCancellation(u) /\ ProgressSendStep(u)
      ]_vars

\* A call that had sent progress, and could have sent more, was cancelled while
\* call_tool was running: its future is dropped.
C38_Witness ==
    \E t \in Tasks :
        /\ pc[t] = "end_lock"
        /\ result[t].err.kind = "RequestCancelled"
        /\ cap_state[t] = "dropped"
        /\ cancel_rx[t] = "fired"
        /\ sends[t] >= 1 /\ sends[t] < MaxSends
        /\ Len(enqueued) >= 1 /\ Len(enqueued) < MaxNotifications

-----------------------------------------------------------------------------
(* The registry's lock and the subscription set's lock, side by side.      *)

LockRequests ==
    { ToolCall(JNum("2"), NamedTool),
      Cancelled("2"),
      MCPRequest("2.0", JNum("1"), "resources/subscribe",
                 [EmptyParams EXCEPT !.uri = JStr("u")]),
      MCPRequest("2.0", JNum("1"), "resources/unsubscribe",
                 [EmptyParams EXCEPT !.uri = JStr("u")]) }

\* At most MaxTasks calls of handle in flight at once, each on one of
\* LockRequests: the paths that take the registry's write lock (server.rs 353,
\* 370-373, 382) beside those that take the subscription set's (server.rs 274,
\* 290).
NextLocks ==
    \E t \in Tasks :
        \/ pc[t] = "idle" /\ \E r \in LockRequests : handle_notification(t, r)
        \/ pc[t] = "idle" /\ \E r \in LockRequests : handle_invoke(t, r)
        \/ pc[t] = "idle" /\ \E r \in LockRequests : handle_tool_call_start(t, r)
        \/ capability_step(t)
        \/ subscription_update(t)
        \/ handle_cancellation_remove(t)
        \/ handle_cancellation_hook_return(t)
        \/ tool_call_begin(t)
        \/ tool_call_poll(t)
        \/ call_tool_step(t)
        \/ select_step(t)
        \/ tool_call_end(t)
        \/ recycle(t)

\* The runtime polls every task that can go on; the capability operations and
\* the cancellation hook return; tokio's RwLock hands its write guard to the
\* waiters in the order they asked, so a task waiting for the registry gets it.
FairLocks ==
    \A t \in Tasks :
        /\ WF_vars(capability_step(t))
        /\ WF_vars(subscription_update(t))
        /\ WF_vars(handle_cancellation_hook_return(t))
        /\ WF_vars(tool_call_poll(t))
        /\ WF_vars(call_tool_step(t))
        /\ WF_vars(select_step(t))
        /\ SF_vars(handle_cancellation_remove(t))
        /\ SF_vars(tool_call_begin(t))
        /\ SF_vars(tool_call_end(t))

SpecLocks == Init /\ [][NextLocks]_vars /\ FairLocks

\* C39: no task holds the registry lock and the subscription-set lock at the
\* same time (the holder of the registry's guard is inside the cancellation
\* hook, and the step that takes the subscription set's lock is taken by a
\* task that holds no registry guard before or after it), and every handle
\* invocation terminates when the capability operations and the hook do.
C39_LocksNeverNestedAndTerminate ==
    /\ [](\A t \in Tasks : lock_owner = t =>
              pc[t] = "hook" /\ ~IsSubscriptionMethod(req[t].method))
    /\ [][ LET \* Task t takes the subscription set's write lock, updates the
                \* set and drops the guard, all in its step.
                SubscriptionLockStep(t) == pc[t] = "sub_lock" /\ pc'[t] = "done"
            IN \A t \in Tasks :
                  /\ SubscriptionLockStep(t) => lock_owner # t /\ lock_owner' # t
                  /\ subscriptions' # subscriptions =>
                        \E u \in Tasks : SubscriptionLockStep(u)
         ]_vars
    /\ \A t \in Tasks : (pc[t] # "idle") ~> (pc[t] = "done")

\* One task is about to take the subscription set's lock while the other, a
\* tools/call that was cancelled under the registry's guard, is about to take
\* the registry's lock for its removal.
C39_Witness ==
    \E t \in Tasks : \E u \in Tasks \ {t} :
        /\ pc[t] = "sub_lock"
        /\ pc[u] = "end_lock" /\ cancel_rx[u] = "fired"
        /\ lock_owner = 0

====
